---- MODULE Spec2Model ----
(***************************************************************************)
(* Model of the main-process IPC handlers of legenda-desktop                *)
(* (registerHandlers): the job orchestrator (JOB_START / JOB_CANCEL), the   *)
(* active-runner registry, the generated-files catalog and the events sent  *)
(* to the renderer.                                                         *)
(*                                                                          *)
(* JavaScript runs each handler to its next `await` without interruption,   *)
(* so one action of the model is one synchronous stretch of a handler.      *)
(* A path is a sequence of tokens, "/" being the separator and an           *)
(* extension (".srt", ".ass") being one token; the empty sequence is the    *)
(* empty string.  An absent (undefined) request field is a field that is    *)
(* not in the DOMAIN of the request record.                                 *)
(***************************************************************************)
EXTENDS Integers, Sequences, FiniteSets, TLC

(* ------------------------------ bounds --------------------------------- *)
MaxJobs == 2
MaxCancels == 2

JobIds == 1..MaxJobs
RunnerIds == 1..MaxJobs
ItemIds == 1..MaxJobs

VARIABLES
    started,      \* number of JOB_START invocations so far (jobId = crypto.randomUUID())
    jobReq,       \* jobId -> the StartJobRequest of that invocation
    pc,           \* jobId -> position of the JOB_START handler
    result,       \* jobId -> what the JOB_START invocation returned or threw
    jobRunner,    \* jobId -> the handler's local `runner` (0: none created)
    runners,      \* the Map<string, WhisperRunner>: function registered jobId -> runner
    runnerState,  \* runner -> "new" | "active" | "killed" | "exited"
    runCalls,     \* runner -> number of run() invocations
    cancelCalls,  \* runner -> number of cancel() invocations
    cancelLog,    \* replies of the JOB_CANCEL invocations, in order
    lastCancelled,\* the jobId given to the latest JOB_CANCEL invocation (0: none yet)
    itemsCreated, \* number of artifact identifiers drawn so far (itemId = crypto.randomUUID())
    catalog,      \* store.list(): sequence of persisted records
    files,        \* set of paths at which a file exists on disk
    lastOp,       \* the latest invocation of a catalog handler: its request, reply and events
    opCount,      \* number of catalog-handler invocations so far
    events,       \* jobId -> what the JOB_START invocation that drew jobId (and any JOB_CANCEL
                  \* for it) sent to the renderer, in emission order
    trace,        \* jobId -> the events of that invocation together with its completed side
                  \* effects (files written, records handed to the store), in program order
    ui            \* the renderer: the state of the App component and the events sent to it
                  \* that it has not handled yet

vars == <<started, jobReq, pc, result, jobRunner, runners, runnerState,
          runCalls, cancelCalls, cancelLog, lastCancelled, itemsCreated, catalog, files,
          lastOp, opCount, events, trace, ui>>

(* ------------------------------ paths ---------------------------------- *)
Undefined == "undefined"

ExtToks == {".srt", ".ass"}

EmptyPath == <<>>
OutSrt == <<"/", "out", "/", "a", ".srt">>
OutAss == <<"/", "out", "/", "b", ".ass">>
OutMissingDir == <<"/", "missing", "/", "a", ".srt">>
AudioFile == <<"/", "in", "/", "a", ".mp3">>

DigitTok(n) ==
    CASE n = 1 -> "1" [] n = 2 -> "2" [] n = 3 -> "3" [] n = 4 -> "4" [] OTHER -> "n"

\* index of the last "/" token of p, 0 when there is none
LastSep(p) ==
    LET S == {i \in 1..Len(p) : p[i] = "/"}
    IN IF S = {} THEN 0 ELSE CHOOSE i \in S : \A k \in S : k <= i

basename(p) == SubSeq(p, LastSep(p) + 1, Len(p))

dirname(p) == IF LastSep(p) <= 1 THEN SubSeq(p, 1, LastSep(p)) ELSE SubSeq(p, 1, LastSep(p) - 1)

\* directories that exist on disk (the job-private temporary areas included)
ExistingDirs == {<<"/", "out">>, <<"/", "in">>} \cup {<<"/", "tmp", "/", DigitTok(r)>> : r \in RunnerIds}

\* the native-format file a runner produces in its private working area
SrtPathOf(r) == <<"/", "tmp", "/", DigitTok(r), "/", "out", ".srt">>

\* res.srtPath.replace(/\.srt$/i, ".ass")
TmpAssOf(srtPath) ==
    IF Len(srtPath) > 0 /\ srtPath[Len(srtPath)] = ".srt"
    THEN SubSeq(srtPath, 1, Len(srtPath) - 1) \o <<".ass">>
    ELSE srtPath

(* ------------------------------ errors --------------------------------- *)
makeErr(code, message, details, actionHint) ==
    [message |-> message,
     appError |-> [code |-> code, message |-> message, details |-> details, actionHint |-> actionHint]]

\* an Error thrown by node:fs or by a helper, with no appError attached
RawError(message) == [message |-> message]

\* kind of an error as seen by a consumer: appError.code when there is one
ErrCode(e) == IF "appError" \in DOMAIN e THEN e.appError.code ELSE Undefined

\* what runner.run() rejects with
RunnerFailedErr == makeErr("WHISPER_FAILED", "whisper exited with a non-zero status", "stderr tail", Undefined)
RunnerCancelledErr == makeErr("CANCELLED", "Cancelado.", Undefined, Undefined)

(* ------------------------------ requests ------------------------------- *)
\* req.f, undefined when the request does not carry the field
Field(req, f) == IF f \in DOMAIN req THEN req[f] ELSE Undefined

\* !req.f : the field is absent or the empty string
Falsy(req, f) == f \notin DOMAIN req \/ req[f] = EmptyPath

\* !req.f for a field that holds text
FalsyText(req, f) == f \notin DOMAIN req \/ req[f] = ""


ReqBase(fmt) == [language |-> "pt", modelId |-> "small", format |-> fmt]

Requests ==
    { ReqBase("srt") @@ [audioPath |-> AudioFile, outputPath |-> OutSrt],
      ReqBase("ass") @@ [audioPath |-> AudioFile, outputPath |-> OutAss],
      ReqBase("srt") @@ [audioPath |-> AudioFile, outputPath |-> OutMissingDir],
      ReqBase("srt") @@ [audioPath |-> EmptyPath, outputPath |-> OutSrt],
      ReqBase("ass") @@ [outputPath |-> EmptyPath],
      ReqBase("ass") @@ [audioPath |-> AudioFile, outputPath |-> EmptyPath] }

(* ------------------------------ events --------------------------------- *)
Progress(j, step, message) == [type |-> "progress", jobId |-> j, step |-> step, message |-> message]
JobDone(j, generated) == [type |-> "done", jobId |-> j, generated |-> generated]
JobError(j, e) == [type |-> "error", jobId |-> j, error |-> e]
GeneratedChanged(reason) == [type |-> "generatedChanged", reason |-> reason]

(* ------------------------------ helpers -------------------------------- *)
\* variant: the audio path is not checked
ValidateAudioUnchecked(req) ==
    IF Falsy(req, "outputPath")
    THEN <<makeErr("OUTPUT_PATH_REQUIRED", "Escolha onde salvar antes de gerar.", Undefined, "CHOOSE_OUTPUT")>>
    ELSE <<>>

\* variant: the output path is checked before the audio path
ValidateOutputFirst(req) ==
    IF Falsy(req, "outputPath")
    THEN <<makeErr("OUTPUT_PATH_REQUIRED", "Escolha onde salvar antes de gerar.", Undefined, "CHOOSE_OUTPUT")>>
    ELSE IF Falsy(req, "audioPath")
         THEN <<makeErr("AUDIO_NOT_SELECTED", "Selecione um áudio.", Undefined, "PICK_AUDIO")>>
         ELSE <<>>

\* the validation of JOB_START: <<>> when the request passes, else <<error>>
Validate(req) ==
    IF Falsy(req, "audioPath")
    THEN <<makeErr("AUDIO_NOT_SELECTED", "Selecione um áudio.", Undefined, "PICK_AUDIO")>>
    ELSE IF Falsy(req, "outputPath")
         THEN <<makeErr("OUTPUT_PATH_REQUIRED", "Escolha onde salvar antes de gerar.", Undefined, "CHOOSE_OUTPUT")>>
         ELSE <<>>

\* variant: TRANSCRIBING is announced before PREPARING
PreRunEventsSwapped(j) ==
    << Progress(j, "TRANSCRIBING", "Transcrevendo áudio (whisper)..."),
       Progress(j, "PREPARING", "Validando arquivos e modelo...") >>

\* events emitted between validation and the await of runner.run()
PreRunEvents(j) ==
    << Progress(j, "PREPARING", "Validando arquivos e modelo..."),
       Progress(j, "TRANSCRIBING", "Transcrevendo áudio (whisper)...") >>

\* runners.set(jobId, runner)
Register(reg, j, r) == [k \in (DOMAIN reg) \cup {j} |-> IF k = j THEN r ELSE reg[k]]

\* variant: the whole registry is cleared
DeregisterAll(reg, j) == << >>

\* variant: the entry is never deleted
DeregisterForgotten(reg, j) == reg

\* runners.delete(jobId)
Deregister(reg, j) == [k \in (DOMAIN reg) \ {j} |-> reg[k]]

\* fs.copyFileSync(src, dst): the files afterwards and <<>> or <<error>>; it throws
\* when the source is missing or the destination directory does not exist
copyFileSync(fs, src, dst) ==
    IF src \notin fs \/ dirname(dst) \notin ExistingDirs
    THEN [files |-> fs, err |-> <<RawError("ENOENT: no such file or directory")>>]
    ELSE [files |-> fs \cup {dst}, err |-> <<>>]

\* convertSrtFileToAss(srtPath, assPath): reads the native file, writes the converted one
convertSrtFileToAss(fs, srtPath, assPath, ioOk) ==
    IF srtPath \notin fs
    THEN [files |-> fs, err |-> <<RawError("ENOENT: no such file or directory")>>]
    ELSE IF ~ioOk
         THEN [files |-> fs, err |-> <<RawError("EIO: i/o error")>>]
         ELSE [files |-> fs \cup {assPath}, err |-> <<>>]

\* lines 191-198: produce the file at the requested output path
WriteOutput(fs, req, srtPath, io) ==
    IF req.format = "srt"
    THEN copyFileSync(fs, srtPath, req.outputPath)
    ELSE LET tmpAss == TmpAssOf(srtPath)
             conv == convertSrtFileToAss(fs, srtPath, tmpAss, io # "convertFails")
         IN IF conv.err # <<>> THEN conv
            ELSE copyFileSync(conv.files, tmpAss, req.outputPath)

\* a completed side effect of a handler
Wrote(path) == [type |-> "effect", op |-> "write", path |-> path]

Stored(op, rec) == [type |-> "effect", op |-> op, record |-> rec]

\* lines 191-198 in program order: the files WriteOutput has written when it returns or throws
WriteEffects(fs, req, srtPath, io) ==
    IF req.format = "srt"
    THEN IF copyFileSync(fs, srtPath, req.outputPath).err = <<>> THEN << Wrote(req.outputPath) >> ELSE << >>
    ELSE LET tmpAss == TmpAssOf(srtPath)
             conv == convertSrtFileToAss(fs, srtPath, tmpAss, io # "convertFails")
         IN IF conv.err # <<>> THEN << >>
            ELSE << Wrote(tmpAss) >> \o
                 (IF copyFileSync(conv.files, tmpAss, req.outputPath).err = <<>>
                  THEN << Wrote(req.outputPath) >> ELSE << >>)

\* lines 177-186: what runner.run() is given
RunArgs(req) ==
    [audioPath |-> req.audioPath,
     language |-> IF FalsyText(req, "language") THEN "pt" ELSE req.language,
     model |-> IF FalsyText(req, "modelId") THEN "small" ELSE req.modelId,
     granularity |-> IF "granularity" \in DOMAIN req THEN req.granularity ELSE "MEDIUM"]

\* the call of runner.run(), as an entry of the trace
Ran(args) == [type |-> "effect", op |-> "runner.run", args |-> args]

\* line 200
ConvertingEvents(j, req) == << Progress(j, "CONVERTING", "Preparando legenda...") >>

\* line 203
SavingEvents(j) == << Progress(j, "SAVING", "Salvando arquivo...") >>

\* variant: fileName holds the whole path
CreatedRecordFullName(req, itemId, now) ==
    [id |-> itemId,
     path |-> req.outputPath,
     fileName |-> req.outputPath,
     format |-> req.format,
     language |-> Field(req, "language"),
     modelId |-> Field(req, "modelId"),
     createdAtISO |-> now,
     exists |-> TRUE]

\* lines 205-215
CreatedRecord(req, itemId, now) ==
    [id |-> itemId,
     path |-> req.outputPath,
     fileName |-> basename(req.outputPath),
     format |-> req.format,
     language |-> Field(req, "language"),
     modelId |-> Field(req, "modelId"),
     createdAtISO |-> now,
     exists |-> TRUE]

\* store.add(record)
storeAdd(cat, rec, ioOk) ==
    IF \E i \in 1..Len(cat) : cat[i].id = rec.id
    THEN [catalog |-> cat, err |-> <<makeErr("VALIDATION_ERROR", "duplicate identifier", Undefined, Undefined)>>]
    ELSE IF ~ioOk
         THEN [catalog |-> cat, err |-> <<RawError("EIO: i/o error")>>]
         ELSE [catalog |-> Append(cat, rec), err |-> <<>>]

\* variant: the record is handed to the store before SAVING is announced
SaveStepsAddFirst(j, created, added) ==
    IF added.err # <<>> THEN SavingEvents(j)
    ELSE << Stored("store.add", created) >> \o SavingEvents(j) \o << GeneratedChanged("CREATED") >>

\* lines 203-218 in program order: SAVING, then store.add, then the CREATED notification;
\* a store.add that throws ends the stretch
SaveSteps(j, created, added) ==
    IF added.err # <<>> THEN SavingEvents(j)
    ELSE SavingEvents(j) \o << Stored("store.add", created), GeneratedChanged("CREATED") >>

\* variant: the done event is not sent
CompletionEventsSilent(j, created) == << Progress(j, "DONE", "Concluído.") >>

\* variant: the DONE progress event is sent before the done event
CompletionEventsDoneFirst(j, created) ==
    << Progress(j, "DONE", "Concluído."),
       JobDone(j, [id |-> created.id, path |-> created.path, fileName |-> created.fileName]) >>

\* lines 222-228: the completion events, in emission order
CompletionEvents(j, created) ==
    << JobDone(j, [id |-> created.id, path |-> created.path, fileName |-> created.fileName]),
       Progress(j, "DONE", "Concluído.") >>

\* variant: the catch block rethrows without telling the renderer
CatchEventsSwallowed(j, e) == << >>

\* line 232: the event emitted by the catch block for the caught error e
CatchEvents(j, e) ==
    << JobError(j, makeErr("WHISPER_FAILED", "Falha ao transcrever com Whisper.", e.message, Undefined)) >>

\* variant: every JOB_CANCEL announces a cancellation error for the job
CancelEventsAnnounce(jobId) ==
    << JobError(jobId, makeErr("CANCELLED", "Cancelado.", Undefined, Undefined)) >>

\* events emitted by JOB_CANCEL (none)
CancelEvents(jobId) == << >>

\* runner.cancel(): requests termination when a process is active, else nothing
runnerCancel(st) == IF st = "active" THEN "killed" ELSE st

\* new Date(): a logical clock that ticks with every artifact identifier drawn
Now == itemsCreated

\* variant: one runner instance is shared by all jobs
FreshRunnerShared == Cardinality({k \in JobIds : jobRunner[k] # 0 /\ k = 0}) + 1

\* new WhisperRunner(): an instance no earlier job holds
FreshRunner == Cardinality({k \in JobIds : jobRunner[k] # 0}) + 1

(* ------------------------------ initial state -------------------------- *)
NoResult == [status |-> "none"]
NoRequest == [format |-> "srt"]
NoOp == [op |-> "none"]

\* the empty string, as an identifier
NoId == << >>

\* the identifier id, as a string
IdText(id) == <<id>>

\* App.tsx lines 47-69: the state of the App component at its first render, before the
\* effect of lines 167-199 has run; audio is << >> for null and <<file>> for a file
NoUi ==
    [mounted |-> FALSE,
     audio |-> << >>,
     language |-> "pt",
     modelId |-> "small",
     format |-> "srt",
     granularity |-> "MEDIUM",
     outputPath |-> EmptyPath,
     busy |-> FALSE,
     step |-> "IDLE",
     generated |-> << >>,
     selectedId |-> NoId,
     inbox |-> << >>,
     clicks |-> 0,
     last |-> [gesture |-> "none", dialog |-> "none"]]

Init ==
    /\ started = 0
    /\ jobReq = [j \in JobIds |-> NoRequest]
    /\ pc = [j \in JobIds |-> "unused"]
    /\ result = [j \in JobIds |-> NoResult]
    /\ jobRunner = [j \in JobIds |-> 0]
    /\ runners = << >>
    /\ runnerState = [r \in RunnerIds |-> "new"]
    /\ runCalls = [r \in RunnerIds |-> 0]
    /\ cancelCalls = [r \in RunnerIds |-> 0]
    /\ cancelLog = << >>
    /\ lastCancelled = 0
    /\ itemsCreated = 0
    /\ catalog = << >>
    /\ files = {AudioFile}
    /\ lastOp = NoOp
    /\ opCount = 0
    /\ events = [j \in JobIds |-> << >>]
    /\ trace = [j \in JobIds |-> << >>]
    /\ ui = NoUi

(* ------------------------------ JOB_START ------------------------------ *)
\* lines 231-236: catch (emit the error event, rethrow) and finally (deregister)
Catch(j, e, evs, tr) ==
    /\ events' = [events EXCEPT ![j] = evs \o CatchEvents(j, e)]
    /\ trace' = [trace EXCEPT ![j] = tr \o CatchEvents(j, e)]
    /\ result' = [result EXCEPT ![j] = [status |-> "threw", error |-> e]]
    /\ runners' = Deregister(runners, j)
    /\ pc' = [pc EXCEPT ![j] = "failed"]

\* lines 160-180: from the invocation to the await of runner.run()
StartJob(req) ==
    /\ started < MaxJobs
    /\ LET j == started + 1
           v == Validate(req)
       IN /\ started' = j
          /\ jobReq' = [jobReq EXCEPT ![j] = req]
          /\ IF v # << >>
             THEN /\ pc' = [pc EXCEPT ![j] = "rejected"]
                  /\ result' = [result EXCEPT ![j] = [status |-> "threw", error |-> v[1]]]
                  /\ UNCHANGED <<jobRunner, runners, runnerState, runCalls, events, trace>>
             ELSE LET r == FreshRunner
                  IN /\ events' = [events EXCEPT ![j] = @ \o PreRunEvents(j)]
                     /\ trace' = [trace EXCEPT ![j] = @ \o PreRunEvents(j) \o << Ran(RunArgs(req)) >>]
                     /\ jobRunner' = [jobRunner EXCEPT ![j] = r]
                     /\ runners' = Register(runners, j, r)
                     /\ runnerState' = [runnerState EXCEPT ![r] = "active"]
                     /\ runCalls' = [runCalls EXCEPT ![r] = @ + 1]
                     /\ pc' = [pc EXCEPT ![j] = "transcribing"]
                     /\ result' = [result EXCEPT ![j] = [status |-> "pending"]]
    /\ UNCHANGED <<cancelCalls, cancelLog, lastCancelled, itemsCreated, catalog, files, lastOp, opCount>>

\* the engine exits with success: run() resolves, lines 191-201 run up to the sleep
RunResolved(j, io) ==
    /\ pc[j] = "transcribing"
    /\ runnerState[jobRunner[j]] = "active"
    /\ LET r == jobRunner[j]
           srtPath == SrtPathOf(r)
           out == WriteOutput(files \cup {srtPath}, jobReq[j], srtPath, io)
           tr == trace[j] \o WriteEffects(files \cup {srtPath}, jobReq[j], srtPath, io)
       IN /\ runnerState' = [runnerState EXCEPT ![r] = "exited"]
          /\ files' = out.files
          /\ IF out.err # << >>
             THEN Catch(j, out.err[1], events[j], tr)
             ELSE /\ events' = [events EXCEPT ![j] = @ \o ConvertingEvents(j, jobReq[j])]
                  /\ trace' = [trace EXCEPT ![j] = tr \o ConvertingEvents(j, jobReq[j])]
                  /\ pc' = [pc EXCEPT ![j] = "sleeping"]
                  /\ UNCHANGED <<result, runners>>
    /\ UNCHANGED <<started, jobReq, jobRunner, runCalls, cancelCalls, cancelLog, lastCancelled, itemsCreated, catalog, lastOp, opCount>>

\* the engine fails, cannot be spawned, or was terminated by cancel(): run() rejects
RunRejected(j) ==
    /\ pc[j] = "transcribing"
    /\ runnerState[jobRunner[j]] \in {"active", "killed"}
    /\ LET r == jobRunner[j]
           e == IF runnerState[r] = "killed" THEN RunnerCancelledErr ELSE RunnerFailedErr
       IN /\ runnerState' = [runnerState EXCEPT ![r] = "exited"]
          /\ Catch(j, e, events[j], trace[j])
    /\ UNCHANGED <<started, jobReq, jobRunner, runCalls, cancelCalls, cancelLog, lastCancelled, itemsCreated, catalog, files, lastOp, opCount>>

\* lines 203-230 after the sleep: save the record, notify, preview, complete
SleepDone(j, io) ==
    /\ pc[j] = "sleeping"
    /\ LET req == jobReq[j]
           evs1 == events[j] \o SavingEvents(j)
           created == CreatedRecord(req, itemsCreated + 1, Now)
           added == storeAdd(catalog, created, io # "addFails")
           evs2 == evs1 \o << GeneratedChanged("CREATED") >>
           srtPath == SrtPathOf(jobRunner[j])
           tr == trace[j] \o SaveSteps(j, created, added)
       IN /\ itemsCreated' = itemsCreated + 1
          /\ catalog' = added.catalog
          /\ IF added.err # << >>
             THEN Catch(j, added.err[1], evs1, tr)
             ELSE IF srtPath \notin files \/ io = "readFails"
                  THEN Catch(j, RawError("ENOENT: no such file or directory"), evs2, tr)
                  ELSE /\ events' = [events EXCEPT ![j] = evs2 \o CompletionEvents(j, created)]
                       /\ trace' = [trace EXCEPT ![j] = tr \o CompletionEvents(j, created)]
                       /\ result' = [result EXCEPT ![j] = [status |-> "ok", jobId |-> j]]
                       /\ runners' = Deregister(runners, j)
                       /\ pc' = [pc EXCEPT ![j] = "ok"]
    /\ UNCHANGED <<started, jobReq, jobRunner, runnerState, runCalls, cancelCalls, cancelLog, lastCancelled, files, lastOp, opCount>>

(* ------------------------------ JOB_CANCEL ----------------------------- *)
CancelJob(jobId) ==
    /\ Len(cancelLog) < MaxCancels
    /\ IF jobId \in DOMAIN runners
       THEN LET r == runners[jobId]
            IN /\ runnerState' = [runnerState EXCEPT ![r] = runnerCancel(@)]
               /\ cancelCalls' = [cancelCalls EXCEPT ![r] = @ + 1]
               /\ runners' = Deregister(runners, jobId)
       ELSE UNCHANGED <<runnerState, cancelCalls, runners>>
    /\ events' = [events EXCEPT ![jobId] = @ \o CancelEvents(jobId)]
    /\ trace' = [trace EXCEPT ![jobId] = @ \o CancelEvents(jobId)]
    /\ cancelLog' = Append(cancelLog, [ok |-> TRUE])
    /\ lastCancelled' = jobId
    /\ UNCHANGED <<started, jobReq, pc, result, jobRunner, runCalls, itemsCreated, catalog, files, lastOp, opCount>>

(* ------------------------------ specification -------------------------- *)
Next ==
    \/ \E req \in Requests : StartJob(req) /\ UNCHANGED ui
    \/ \E j \in JobIds, io \in {"ok", "convertFails"} : RunResolved(j, io) /\ UNCHANGED ui
    \/ \E j \in JobIds : RunRejected(j) /\ UNCHANGED ui
    \/ \E j \in JobIds, io \in {"ok", "addFails", "readFails"} : SleepDone(j, io) /\ UNCHANGED ui
    \/ \E jobId \in JobIds : CancelJob(jobId) /\ UNCHANGED ui

Spec == Init /\ [][Next]_vars

(* ------------------------------ properties ----------------------------- *)
\* the phases of the progress events of an event sequence, in emission order
StepsOf(evs) ==
    LET P == SelectSeq(evs, LAMBDA e : e.type = "progress")
    IN [i \in 1..Len(P) |-> P[i].step]

\* the error events of an event sequence
ErrorsOf(evs) == SelectSeq(evs, LAMBDA e : e.type = "error")

Rank(step) ==
    CASE step = "PREPARING" -> 1 [] step = "TRANSCRIBING" -> 2 [] step = "CONVERTING" -> 3
      [] step = "SAVING" -> 4 [] step = "DONE" -> 5 [] OTHER -> 0

IsTerminalEvent(e) == e.type = "error" \/ (e.type = "progress" /\ e.step = "DONE")

Threw(j, code) == result[j].status = "threw" /\ ErrCode(result[j].error) = code

\* C1: every successful job emits exactly PREPARING, TRANSCRIBING, SAVING, DONE when
\* the format is srt (no CONVERTING) and PREPARING, TRANSCRIBING, CONVERTING, SAVING,
\* DONE when the format is not the native one.
C1_PhaseSequenceOfSuccess ==
    \A j \in JobIds :
        result[j].status = "ok" =>
            StepsOf(events[j]) =
                IF jobReq[j].format = "srt"
                THEN <<"PREPARING", "TRANSCRIBING", "SAVING", "DONE">>
                ELSE <<"PREPARING", "TRANSCRIBING", "CONVERTING", "SAVING", "DONE">>

\* C2: a JOB_START whose audio path is empty or absent throws AUDIO_NOT_SELECTED, and
\* that invocation emits no event, creates and registers no runner and leaves the
\* catalog as it was.
C2_EmptyAudioRejected ==
    /\ [](\A j \in JobIds :
            (pc[j] # "unused" /\ Falsy(jobReq[j], "audioPath")) =>
                /\ Threw(j, "AUDIO_NOT_SELECTED")
                /\ events[j] = << >>
                /\ jobRunner[j] = 0
                /\ j \notin DOMAIN runners)
    /\ [][\A j \in JobIds :
            (pc[j] = "unused" /\ pc'[j] # "unused" /\ Falsy(jobReq'[j], "audioPath")) =>
                /\ catalog' = catalog
                /\ runners' = runners
                /\ events' = events
                /\ files' = files]_vars

C2_Witness ==
    \E j \in JobIds :
        /\ pc[j] = "rejected"
        /\ "audioPath" \in DOMAIN jobReq[j]
        /\ jobReq[j].audioPath = EmptyPath
        /\ ~Falsy(jobReq[j], "outputPath")

\* C3: a JOB_START with an audio path but an empty output path throws
\* OUTPUT_PATH_REQUIRED with the hint CHOOSE_OUTPUT, having emitted no event and created
\* no runner; with both paths empty it throws AUDIO_NOT_SELECTED.
C3_EmptyOutputRejected ==
    \A j \in JobIds :
        (pc[j] # "unused" /\ Falsy(jobReq[j], "outputPath")) =>
            /\ result[j].status = "threw"
            /\ events[j] = << >>
            /\ jobRunner[j] = 0
            /\ j \notin DOMAIN runners
            /\ IF Falsy(jobReq[j], "audioPath")
               THEN ErrCode(result[j].error) = "AUDIO_NOT_SELECTED"
               ELSE /\ ErrCode(result[j].error) = "OUTPUT_PATH_REQUIRED"
                    /\ result[j].error.appError.actionHint = "CHOOSE_OUTPUT"

C3_Witness ==
    /\ \E j \in JobIds :
        pc[j] = "rejected" /\ ~Falsy(jobReq[j], "audioPath") /\ Falsy(jobReq[j], "outputPath")
    /\ \E j \in JobIds :
        pc[j] = "rejected" /\ Falsy(jobReq[j], "audioPath") /\ Falsy(jobReq[j], "outputPath")

\* C4: when a job fails after validation, the error carried by its error event is the
\* error with which the JOB_START invocation itself fails.
C4_SameErrorOnBothChannels ==
    \A j \in JobIds :
        pc[j] = "failed" =>
            /\ Len(ErrorsOf(events[j])) = 1
            /\ ErrorsOf(events[j])[1].error = result[j].error

\* C5: a job whose pending run was cancelled ends CANCELLED: the error reported by its
\* error event has kind CANCELLED, not WHISPER_FAILED.
C5_CancelledIsNotTranscriptionFailed ==
    \A j \in JobIds :
        (pc[j] = "failed" /\ result[j].error = RunnerCancelledErr) =>
            \A i \in 1..Len(ErrorsOf(events[j])) :
                /\ ErrCode(ErrorsOf(events[j])[i].error) = "CANCELLED"
                /\ ErrCode(ErrorsOf(events[j])[i].error) # "WHISPER_FAILED"

\* C6: every JOB_CANCEL replies ok; cancel() is invoked at most once on a runner; a
\* JOB_CANCEL that finds no runner registered for its jobId invokes no cancel() and
\* changes nothing but the reply log, so it emits no event.
C6_CancelNeverFails ==
    /\ [](/\ \A i \in 1..Len(cancelLog) : cancelLog[i] = [ok |-> TRUE]
          /\ \A r \in RunnerIds : cancelCalls[r] <= 1)
    /\ [][(Len(cancelLog') = Len(cancelLog) + 1) =>
            IF lastCancelled' \in DOMAIN runners
            THEN /\ cancelCalls' = [cancelCalls EXCEPT ![runners[lastCancelled']] = @ + 1]
                 /\ lastCancelled' \notin DOMAIN runners'
                 /\ events' = events
            ELSE /\ cancelCalls' = cancelCalls
                 /\ events' = events
                 /\ runners' = runners
                 /\ runnerState' = runnerState
                 /\ pc' = pc
                 /\ result' = result
                 /\ catalog' = catalog]_vars

\* a job was cancelled while registered, and the latest JOB_CANCEL named it again
C6_Witness ==
    \E j \in JobIds :
        /\ jobRunner[j] # 0
        /\ cancelCalls[jobRunner[j]] = 1
        /\ lastCancelled = j
        /\ Len(cancelLog) >= 2
        /\ started = j
        /\ \A k \in JobIds : (k # j /\ jobRunner[k] # 0) => cancelCalls[jobRunner[k]] = 0

\* C7: every jobId in the registry is that of a job still before its terminal phase, and
\* a job whose JOB_START invocation has completed has no registry entry.
C7_RegistryHoldsOnlyLiveJobs ==
    /\ \A j \in DOMAIN runners : pc[j] \in {"transcribing", "sleeping"} /\ runners[j] = jobRunner[j]
    /\ \A j \in JobIds : result[j].status \in {"ok", "threw"} => j \notin DOMAIN runners

C7_Witness ==
    \E j, k \in JobIds :
        /\ pc[j] \in {"ok", "failed"}
        /\ j \notin DOMAIN runners
        /\ k \in DOMAIN runners

\* C8: the progress events of a job are in strictly increasing phase order
\* PREPARING < TRANSCRIBING < CONVERTING < SAVING < DONE, whether it succeeds or fails.
C8_ProgressInPhaseOrder ==
    \A j \in JobIds :
        LET S == StepsOf(events[j])
        IN \A a, b \in 1..Len(S) : a < b => (Rank(S[a]) >= 1 /\ Rank(S[a]) < Rank(S[b]))

C8_Witness ==
    \E j \in JobIds :
        /\ pc[j] = "failed"
        /\ StepsOf(events[j]) = <<"PREPARING", "TRANSCRIBING", "CONVERTING", "SAVING">>

\* C9: the DONE progress event and the error event are final: each is the last job-tagged
\* event of its job, and once it is emitted the job's events never change again.
C9_TerminalIsAbsorbing ==
    /\ [](\A j \in JobIds : \A i \in 1..Len(events[j]) :
            IsTerminalEvent(events[j][i]) => i = Len(events[j]))
    /\ [][\A j \in JobIds :
            (\E i \in 1..Len(events[j]) : IsTerminalEvent(events[j][i])) =>
                events'[j] = events[j]]_vars

\* a job completed although JOB_CANCEL reached it, next to a job that failed
C9_Witness ==
    \E j, k \in JobIds :
        /\ j # k
        /\ pc[j] = "ok"
        /\ cancelCalls[jobRunner[j]] = 1
        /\ pc[k] = "failed"
        /\ lastCancelled = k

\* C10: the step that completes a job successfully appends exactly one record to the
\* catalog, with the requested format, the requested output path and that path's base
\* name, and the done event carries that record's id, path and fileName; no earlier step
\* of the job touches the catalog.
C10_OneRecordPerSuccess ==
    [][\A j \in JobIds :
        /\ (pc[j] # "ok" /\ pc'[j] = "ok") =>
              /\ Len(catalog') = Len(catalog) + 1
              /\ SubSeq(catalog', 1, Len(catalog)) = catalog
              /\ LET rec == catalog'[Len(catalog')]
                     dn == SelectSeq(events'[j], LAMBDA e : e.type = "done")
                 IN /\ rec.format = jobReq[j].format
                    /\ rec.path = jobReq[j].outputPath
                    /\ \A i \in 1..Len(rec.fileName) : rec.fileName[i] # "/"
                    /\ \E n \in 1..Len(rec.path) :
                          /\ rec.path[n] = "/"
                          /\ rec.path = SubSeq(rec.path, 1, n) \o rec.fileName
                    /\ \A i \in 1..Len(catalog) : catalog[i].id # rec.id
                    /\ Len(dn) = 1
                    /\ dn[1].generated = [id |-> rec.id, path |-> rec.path, fileName |-> rec.fileName]
        /\ (pc[j] # pc'[j] /\ pc'[j] \in {"rejected", "transcribing", "sleeping"}) =>
              catalog' = catalog]_vars

C10_Witness ==
    \E j \in JobIds :
        /\ pc[j] = "ok"
        /\ \E i \in 1..Len(catalog) :
              catalog[i].path = jobReq[j].outputPath /\ catalog[i].format = "ass"

\* C11: a job that fails at the run or at any later step has emitted an error event, has
\* no registry entry and its JOB_START invocation threw; an invocation that returned ok
\* emitted no error event.
C11_FailureIsReportedAndPropagated ==
    \A j \in JobIds :
        /\ pc[j] = "failed" =>
              /\ Len(ErrorsOf(events[j])) >= 1
              /\ j \notin DOMAIN runners
              /\ result[j].status = "threw"
        /\ Len(ErrorsOf(events[j])) >= 1 => result[j].status = "threw"
        /\ result[j].status = "ok" => ErrorsOf(events[j]) = << >>

\* a job failed after its run had resolved, at the save step
C11_Witness ==
    \E j \in JobIds :
        /\ pc[j] = "failed"
        /\ runnerState[jobRunner[j]] = "exited"
        /\ "SAVING" \in {StepsOf(events[j])[i] : i \in 1..Len(StepsOf(events[j]))}

\* C19: every job that passed validation has a runner of its own: no two jobs hold the
\* same runner, the registry maps a jobId to that job's runner only, and run() was
\* invoked exactly once on every runner created.
C19_OneFreshRunnerPerJob ==
    /\ \A j, k \in JobIds : (j # k /\ jobRunner[j] # 0) => jobRunner[j] # jobRunner[k]
    /\ \A j, k \in DOMAIN runners : j # k => runners[j] # runners[k]
    /\ \A j \in DOMAIN runners : runners[j] = jobRunner[j]
    /\ \A j \in JobIds : jobRunner[j] # 0 => runCalls[jobRunner[j]] = 1
    /\ \A r \in RunnerIds : runCalls[r] <= 1

C19_Witness ==
    \E j, k \in DOMAIN runners :
        j # k /\ pc[j] = "transcribing" /\ pc[k] = "transcribing"

\* C20: a JOB_CANCEL that finds a runner registered for its jobId invokes cancel() once on
\* that runner and removes that entry in the same step, while the job has not settled;
\* every other registry entry and runner is untouched; finding none, it changes nothing.
C20_CancelTouchesOnlyItsJob ==
    [][(Len(cancelLog') = Len(cancelLog) + 1) =>
        LET j == lastCancelled'
        IN IF j \in DOMAIN runners
           THEN /\ cancelCalls' = [cancelCalls EXCEPT ![runners[j]] = @ + 1]
                /\ DOMAIN runners' = (DOMAIN runners) \ {j}
                /\ \A k \in DOMAIN runners' : runners'[k] = runners[k]
                /\ \A r \in RunnerIds : r # runners[j] => runnerState'[r] = runnerState[r]
                /\ pc' = pc /\ result' = result
                /\ pc[j] \in {"transcribing", "sleeping"} /\ result[j].status = "pending"
           ELSE /\ runners' = runners
                /\ cancelCalls' = cancelCalls
                /\ runnerState' = runnerState
                /\ pc' = pc /\ result' = result]_vars

\* one of two registered jobs was cancelled and is still awaiting its run
C20_Witness ==
    \E j, k \in JobIds :
        /\ j # k
        /\ pc[j] = "transcribing" /\ j \notin DOMAIN runners
        /\ cancelCalls[jobRunner[j]] = 1
        /\ k \in DOMAIN runners /\ cancelCalls[jobRunner[k]] = 0

(* ------------------------------ rename collision ----------------------- *)
MaxHole == 4
MaxTail == 2

\* the attempt ceiling of the probe loop: for (let i = 1; i < 1000; i++)
ProbeLimit == 1000

DecDigit(d) == <<"0", "1", "2", "3", "4", "5", "6", "7", "8", "9">>[d + 1]

\* the decimal digits of i, as `${i}` writes them
RECURSIVE Dec(_)
Dec(n) == IF n < 10 THEN <<DecDigit(n)>> ELSE Dec(n \div 10) \o <<DecDigit(n % 10)>>

\* path.extname(p): the extension token closing the base name, or the empty string
extname(p) ==
    LET b == basename(p)
    IN IF Len(b) >= 2 /\ b[Len(b)] \in ExtToks THEN <<b[Len(b)]>> ELSE << >>

\* path.basename(p, ext)
basenameNoExt(p, ext) ==
    LET b == basename(p)
    IN IF ext # << >> /\ Len(b) > Len(ext) /\ SubSeq(b, Len(b) - Len(ext) + 1, Len(b)) = ext
       THEN SubSeq(b, 1, Len(b) - Len(ext))
       ELSE b

\* path.join(dir, name)
join(dir, name) ==
    IF dir = << >> THEN name
    ELSE IF dir[Len(dir)] = "/" THEN dir \o name
    ELSE dir \o <<"/">> \o name

\* path.join(dir, `${base} (${i})${ext}`)
CandidatePath(p, i) ==
    LET ext == extname(p)
    IN join(dirname(p), basenameNoExt(p, ext) \o <<" (">> \o Dec(i) \o <<")">> \o ext)

\* the first suffix in lo..hi, in loop order, whose candidate does not exist; 0 if none
\* (the loop body of resolveNonCollidingPath, evaluated by halving the range)
RECURSIVE FirstFree(_, _, _, _)
FirstFree(fs, p, lo, hi) ==
    IF lo > hi THEN 0
    ELSE IF lo = hi THEN (IF CandidatePath(p, lo) \notin fs THEN lo ELSE 0)
    ELSE LET mid == (lo + hi) \div 2
             left == FirstFree(fs, p, lo, mid)
         IN IF left # 0 THEN left ELSE FirstFree(fs, p, mid + 1, hi)

\* for (let i = first; i < ProbeLimit; i++) { ... return candidate } return p
Probe(fs, p, first) ==
    LET i == FirstFree(fs, p, first, ProbeLimit - 1)
    IN IF i # 0 THEN CandidatePath(p, i) ELSE p

\* variant: the first suffix tried is 2
resolveNonCollidingPathFromTwo(fs, p) == IF p \notin fs THEN p ELSE Probe(fs, p, 2)

\* variant: on exhaustion the next candidate is returned instead of the colliding path
resolveNonCollidingPathNoFallback(fs, p) ==
    IF p \notin fs THEN p
    ELSE LET i == FirstFree(fs, p, 1, ProbeLimit - 1)
         IN IF i # 0 THEN CandidatePath(p, i) ELSE CandidatePath(p, ProbeLimit)

\* resolveNonCollidingPath(p), on the disk fs
resolveNonCollidingPath(fs, p) == IF p \notin fs THEN p ELSE Probe(fs, p, 1)

\* desired paths handed to the probe and the suffix sets already taken on disk
ResolvePaths == { <<"/", "out", "/", "x", ".srt">>, <<"/", "out", "/", "x">> }
TakenSets == (SUBSET (1..MaxHole)) \cup { 1..k : k \in (ProbeLimit - 1 - MaxTail)..(ProbeLimit - 1) }

ResolveInit ==
    /\ started = 0
    /\ jobReq = [j \in JobIds |-> NoRequest]
    /\ pc = [j \in JobIds |-> "unused"]
    /\ result = [j \in JobIds |-> NoResult]
    /\ jobRunner = [j \in JobIds |-> 0]
    /\ runners = << >>
    /\ runnerState = [r \in RunnerIds |-> "new"]
    /\ runCalls = [r \in RunnerIds |-> 0]
    /\ cancelCalls = [r \in RunnerIds |-> 0]
    /\ cancelLog = << >>
    /\ lastCancelled = 0
    /\ itemsCreated = 0
    /\ catalog = << >>
    /\ \E p \in ResolvePaths, T \in TakenSets, there \in BOOLEAN :
          files = {AudioFile} \cup (IF there THEN {p} ELSE {}) \cup {CandidatePath(p, i) : i \in T}
    /\ lastOp = NoOp
    /\ opCount = 0
    /\ events = [j \in JobIds |-> << >>]
    /\ trace = [j \in JobIds |-> << >>]
    /\ ui = NoUi

\* one call of resolveNonCollidingPath(p)
ResolveCall(p) ==
    /\ opCount = 0
    /\ lastOp' = [op |-> "resolveNonCollidingPath", arg |-> p, ret |-> resolveNonCollidingPath(files, p)]
    /\ opCount' = opCount + 1
    /\ UNCHANGED <<started, jobReq, pc, result, jobRunner, runners, runnerState, runCalls,
                   cancelCalls, cancelLog, lastCancelled, itemsCreated, catalog, files, events, trace>>

ResolveNext == \E p \in ResolvePaths : ResolveCall(p) /\ UNCHANGED ui

ResolveSpec == ResolveInit /\ [][ResolveNext]_vars

\* the candidate for suffix i written out: X, " (", digits of i, ")", ext
Suffixed(p, i) ==
    IF p[Len(p)] \in ExtToks
    THEN SubSeq(p, 1, Len(p) - 1) \o <<" (">> \o Dec(i) \o <<")", p[Len(p)]>>
    ELSE p \o <<" (">> \o Dec(i) \o <<")">>

Resolved == lastOp.op = "resolveNonCollidingPath"

\* C12: the resolved path is the desired path when no file is there; otherwise it is
\* 'X (i).ext' for the smallest i >= 1 with no file at that candidate, so one collision
\* gives 'X (1).ext' and a second one 'X (2).ext'.
C12_SmallestFreeSuffix ==
    Resolved =>
        LET p == lastOp.arg
            free == {i \in 1..(ProbeLimit - 1) : Suffixed(p, i) \notin files}
        IN /\ p \notin files => lastOp.ret = p
           /\ (p \in files /\ free # {}) =>
                 \E i \in free : /\ \A k \in free : i <= k
                                 /\ lastOp.ret = Suffixed(p, i)
           /\ (p = <<"/", "out", "/", "x", ".srt">> /\ p \in files /\ 1 \in free) =>
                 lastOp.ret = <<"/", "out", "/", "x", " (", "1", ")", ".srt">>
           /\ (p = <<"/", "out", "/", "x", ".srt">> /\ p \in files /\ 1 \notin free /\ 2 \in free) =>
                 lastOp.ret = <<"/", "out", "/", "x", " (", "2", ")", ".srt">>

\* the desired path and its first suffix collide, the second suffix is free
C12_Witness ==
    /\ Resolved
    /\ lastOp.arg \in files
    /\ Suffixed(lastOp.arg, 1) \in files
    /\ lastOp.ret = Suffixed(lastOp.arg, 2)

\* C13: the probe tries the suffixes 1..999 only; when the desired path and all 999
\* candidates exist it returns the desired path, and in every other case the path it
\* returns does not exist on disk.
C13_BoundedProbeFallsBack ==
    Resolved =>
        LET p == lastOp.arg
            exhausted == p \in files /\ \A i \in 1..999 : Suffixed(p, i) \in files
        IN /\ exhausted => lastOp.ret = p
           /\ ~exhausted => lastOp.ret \notin files
           /\ lastOp.ret \in {p} \cup {Suffixed(p, i) : i \in 1..999}

\* all 999 suffixes are taken and the probe fell back to the colliding path
C13_Witness ==
    /\ Resolved
    /\ lastOp.arg \in files
    /\ \A i \in 1..999 : Suffixed(lastOp.arg, i) \in files
    /\ lastOp.ret = lastOp.arg

(* ------------------------------ catalog handlers ----------------------- *)
MaxStoreOps == 2

\* store.list(): the persisted records, in insertion order
storeList(cat) == cat

\* store.update(id, mutator): the record matching id is replaced by mutator(record)
storeUpdate(cat, id, updated) == [i \in 1..Len(cat) |-> IF cat[i].id = id THEN updated ELSE cat[i]]

\* store.remove(id): the record matching id is dropped, a no-op when there is none
storeRemove(cat, id) == SelectSeq(cat, LAMBDA r : r.id # id)

\* items.find((x) => x.id === id): <<record>> or << >>
FindById(items, id) == SelectSeq(items, LAMBDA r : r.id = id)

IllegalToks == {"/", ":", "*", "?"}

RECURSIVE TrimLeft(_)
TrimLeft(n) == IF n # << >> /\ n[1] = " " THEN TrimLeft(Tail(n)) ELSE n

RECURSIVE TrimRight(_)
TrimRight(n) == IF n # << >> /\ n[Len(n)] = " " THEN TrimRight(SubSeq(n, 1, Len(n) - 1)) ELSE n

RECURSIVE CollapseSpaces(_)
CollapseSpaces(n) ==
    IF Len(n) < 2 THEN n
    ELSE IF n[1] = " " /\ n[2] = " " THEN CollapseSpaces(Tail(n))
    ELSE <<n[1]>> \o CollapseSpaces(Tail(n))

\* sanitizeBaseName(input): trim, drop the characters illegal in a file name, collapse
\* runs of white space, trim
sanitizeBaseName(input) ==
    LET cleaned == SelectSeq(TrimRight(TrimLeft(input)), LAMBDA t : t \notin IllegalToks)
    IN TrimRight(TrimLeft(CollapseSpaces(cleaned)))

\* fs.renameSync(from, to)
renameSync(fs, from, to, ioOk) ==
    IF from \notin fs
    THEN [files |-> fs, err |-> <<RawError("ENOENT: no such file or directory")>>]
    ELSE IF ~ioOk
         THEN [files |-> fs, err |-> <<RawError("EPERM: operation not permitted")>>]
         ELSE [files |-> (fs \ {from}) \cup {to}, err |-> << >>]

\* fs.unlinkSync(p)
unlinkSync(fs, p, ioOk) ==
    IF p \notin fs
    THEN [files |-> fs, err |-> <<RawError("ENOENT: no such file or directory")>>]
    ELSE IF ~ioOk
         THEN [files |-> fs, err |-> <<RawError("EPERM: operation not permitted")>>]
         ELSE [files |-> fs \ {p}, err |-> << >>]

\* variant: the file is unlinked without asking whether it exists
RemoveFileUnguarded(fs, p, ioOk) == unlinkSync(fs, p, ioOk)

\* line 132: if (fs.existsSync(found.path)) fs.unlinkSync(found.path)
RemoveFile(fs, p, ioOk) ==
    IF p \in fs THEN unlinkSync(fs, p, ioOk) ELSE [files |-> fs, err |-> << >>]

\* variant: the on-disk existence of the record's file is not re-validated
RenamePreconditionsNoDiskCheck(items, fs, req) ==
    LET found == FindById(items, req.id)
    IN IF found = << >>
       THEN <<makeErr("FILE_NOT_FOUND", "Arquivo não encontrado no histórico.", Undefined, Undefined)>>
       ELSE IF sanitizeBaseName(req.newBaseName) = << >>
            THEN <<makeErr("VALIDATION_ERROR", "Nome inválido.", Undefined, Undefined)>>
            ELSE << >>

\* lines 91-98: the checks of GENERATED_RENAME, << >> when they pass, else <<error>>
RenamePreconditions(items, fs, req) ==
    LET found == FindById(items, req.id)
    IN IF found = << >>
       THEN <<makeErr("FILE_NOT_FOUND", "Arquivo não encontrado no histórico.", Undefined, Undefined)>>
       ELSE IF found[1].path \notin fs
            THEN <<makeErr("FILE_NOT_FOUND", "Arquivo não existe mais no disco.", Undefined, Undefined)>>
            ELSE IF sanitizeBaseName(req.newBaseName) = << >>
                 THEN <<makeErr("VALIDATION_ERROR", "Nome inválido.", Undefined, Undefined)>>
                 ELSE << >>

\* lines 100-102: the desired new path
NewPath(found, base) == join(dirname(found.path), base \o extname(found.path))

\* variant: fileName is taken from the desired path, before collision resolution
UpdatedRecordDesiredName(found, newPath, finalPath) ==
    [found EXCEPT !.path = finalPath, !.fileName = basename(newPath), !.exists = TRUE]

\* lines 113-118
UpdatedRecord(found, newPath, finalPath) ==
    [found EXCEPT !.path = finalPath, !.fileName = basename(finalPath), !.exists = TRUE]

\* variant: only the renamed record is written back
CatalogAfterRenameAlone(cat, id, updated) == <<updated>>

\* line 120: store.update(req.id, () => updated)
CatalogAfterRename(cat, id, updated) == storeUpdate(cat, id, updated)

\* variant: the record is left in the catalog
CatalogAfterDeleteKept(cat, id) == cat

\* line 137: store.remove(req.id)
CatalogAfterDelete(cat, id) == storeRemove(cat, id)

\* variant: the stored exists value is returned as it is
ListItemsStored(cat, fs) == storeList(cat)

\* line 86: store.list().map((x) => ({ ...x, exists: fs.existsSync(x.path) }))
ListItems(cat, fs) ==
    LET items == storeList(cat)
    IN [i \in 1..Len(items) |-> [items[i] EXCEPT !.exists = (items[i].path \in fs)]]

\* variant: the text of the caught error is dropped
FileOpFailedBare(code, message, e) == makeErr(code, message, Undefined, Undefined)

\* lines 109 and 134: makeErr(code, message, e?.message) for the error e the fs call raised
FileOpFailed(code, message, e) == makeErr(code, message, e.message, Undefined)


OpThrew(op, req, e) == [op |-> op, req |-> req, status |-> "threw", error |-> e, events |-> << >>]

\* GENERATED_LIST
ListGenerated ==
    /\ opCount < MaxStoreOps
    /\ opCount' = opCount + 1
    /\ lastOp' = [op |-> "list", status |-> "ok", items |-> ListItems(catalog, files), events |-> << >>]
    /\ UNCHANGED <<started, jobReq, pc, result, jobRunner, runners, runnerState, runCalls,
                   cancelCalls, cancelLog, lastCancelled, itemsCreated, catalog, files, events, trace>>

\* GENERATED_RENAME
RenameGenerated(req, io) ==
    /\ opCount < MaxStoreOps
    /\ opCount' = opCount + 1
    /\ LET items == storeList(catalog)
           pre == RenamePreconditions(items, files, req)
       IN IF pre # << >>
          THEN /\ lastOp' = OpThrew("rename", req, pre[1])
               /\ UNCHANGED <<catalog, files>>
          ELSE LET found == FindById(items, req.id)[1]
                   newPath == NewPath(found, sanitizeBaseName(req.newBaseName))
                   finalPath == resolveNonCollidingPath(files, newPath)
                   moved == renameSync(files, found.path, finalPath, io = "ok")
                   updated == UpdatedRecord(found, newPath, finalPath)
               IN IF moved.err # << >>
                  THEN /\ lastOp' = OpThrew("rename", req,
                                        FileOpFailed("FILE_RENAME_FAILED", "Não foi possível renomear o arquivo.",
                                                     moved.err[1]))
                       /\ UNCHANGED <<catalog, files>>
                  ELSE /\ files' = moved.files
                       /\ catalog' = CatalogAfterRename(catalog, req.id, updated)
                       /\ lastOp' = [op |-> "rename", req |-> req, status |-> "ok", item |-> updated,
                                     events |-> << GeneratedChanged("RENAMED") >>]
    /\ UNCHANGED <<started, jobReq, pc, result, jobRunner, runners, runnerState, runCalls,
                   cancelCalls, cancelLog, lastCancelled, itemsCreated, events, trace>>

\* GENERATED_DELETE
DeleteGenerated(req, io) ==
    /\ opCount < MaxStoreOps
    /\ opCount' = opCount + 1
    /\ LET found == FindById(storeList(catalog), req.id)
       IN IF found = << >>
          THEN /\ lastOp' = OpThrew("delete", req,
                                makeErr("FILE_NOT_FOUND", "Arquivo não encontrado no histórico.", Undefined, Undefined))
               /\ UNCHANGED <<catalog, files>>
          ELSE LET removed == RemoveFile(files, found[1].path, io = "ok")
               IN IF removed.err # << >>
                  THEN /\ lastOp' = OpThrew("delete", req,
                                        FileOpFailed("FILE_DELETE_FAILED", "Não foi possível apagar o arquivo.",
                                                     removed.err[1]))
                       /\ UNCHANGED <<catalog, files>>
                  ELSE /\ files' = removed.files
                       /\ catalog' = CatalogAfterDelete(catalog, req.id)
                       /\ lastOp' = [op |-> "delete", req |-> req, status |-> "ok",
                                     unlinked |-> (found[1].path \in files),
                                     events |-> << GeneratedChanged("DELETED") >>]
    /\ UNCHANGED <<started, jobReq, pc, result, jobRunner, runners, runnerState, runCalls,
                   cancelCalls, cancelLog, lastCancelled, itemsCreated, events, trace>>

\* variant: the file is opened without asking whether it exists
OpenPreconditionsNoDiskCheck(items, fs, req) ==
    IF FindById(items, req.id) = << >>
    THEN <<makeErr("FILE_NOT_FOUND", "Arquivo não encontrado no histórico.", Undefined, Undefined)>>
    ELSE << >>

\* lines 144-146: the checks of GENERATED_OPEN, << >> when they pass, else <<error>>
OpenPreconditions(items, fs, req) ==
    LET found == FindById(items, req.id)
    IN IF found = << >>
       THEN <<makeErr("FILE_NOT_FOUND", "Arquivo não encontrado no histórico.", Undefined, Undefined)>>
       ELSE IF found[1].path \notin fs
            THEN <<makeErr("FILE_NOT_FOUND", "Arquivo não existe mais no disco.", Undefined, Undefined)>>
            ELSE << >>

\* lines 153-154: the check of GENERATED_SHOW_IN_FOLDER
ShowPreconditions(items, req) ==
    IF FindById(items, req.id) = << >>
    THEN <<makeErr("FILE_NOT_FOUND", "Arquivo não encontrado no histórico.", Undefined, Undefined)>>
    ELSE << >>

\* GENERATED_OPEN; what follows the await of shell.openPath only returns { ok: true }
\* and is taken in the same step
OpenGenerated(req) ==
    /\ opCount < MaxStoreOps
    /\ opCount' = opCount + 1
    /\ LET items == storeList(catalog)
           pre == OpenPreconditions(items, files, req)
       IN lastOp' = IF pre # << >>
                    THEN OpThrew("open", req, pre[1])
                    ELSE [op |-> "open", req |-> req, status |-> "ok",
                          shell |-> <<"openPath", FindById(items, req.id)[1].path>>, events |-> << >>]
    /\ UNCHANGED <<started, jobReq, pc, result, jobRunner, runners, runnerState, runCalls,
                   cancelCalls, cancelLog, lastCancelled, itemsCreated, catalog, files, events, trace>>

\* GENERATED_SHOW_IN_FOLDER
ShowInFolder(req) ==
    /\ opCount < MaxStoreOps
    /\ opCount' = opCount + 1
    /\ LET items == storeList(catalog)
           pre == ShowPreconditions(items, req)
       IN lastOp' = IF pre # << >>
                    THEN OpThrew("showInFolder", req, pre[1])
                    ELSE [op |-> "showInFolder", req |-> req, status |-> "ok",
                          shell |-> <<"showItemInFolder", FindById(items, req.id)[1].path>>,
                          events |-> << >>]
    /\ UNCHANGED <<started, jobReq, pc, result, jobRunner, runners, runnerState, runCalls,
                   cancelCalls, cancelLog, lastCancelled, itemsCreated, catalog, files, events, trace>>

\* a catalogued file is removed or put back by something other than the application
ExternalChange(p) ==
    /\ \E i \in 1..Len(catalog) : catalog[i].path = p
    /\ files' = IF p \in files THEN files \ {p} ELSE files \cup {p}
    /\ UNCHANGED <<started, jobReq, pc, result, jobRunner, runners, runnerState, runCalls, cancelCalls,
                   cancelLog, lastCancelled, itemsCreated, catalog, lastOp, opCount, events, trace>>

StoreRequests ==
    { ReqBase("srt") @@ [audioPath |-> AudioFile, outputPath |-> OutSrt] }

RenameNames == { <<" ", "a", ":">>, <<" ", "/">> }

StoreNext ==
    \/ \E req \in StoreRequests : StartJob(req) /\ UNCHANGED ui
    \/ \E j \in JobIds : RunResolved(j, "ok") /\ UNCHANGED ui
    \/ \E j \in JobIds : SleepDone(j, "ok") /\ UNCHANGED ui
    \/ ListGenerated /\ UNCHANGED ui
    \/ \E id \in ItemIds, n \in RenameNames, io \in {"ok", "renameFails"} :
          RenameGenerated([id |-> id, newBaseName |-> n], io) /\ UNCHANGED ui
    \/ \E id \in ItemIds, io \in {"ok", "unlinkFails"} : DeleteGenerated([id |-> id], io) /\ UNCHANGED ui
    \/ \E id \in ItemIds : OpenGenerated([id |-> id]) /\ UNCHANGED ui
    \/ \E id \in ItemIds : ShowInFolder([id |-> id]) /\ UNCHANGED ui
    \/ \E i \in 1..Len(catalog) : ExternalChange(catalog[i].path) /\ UNCHANGED ui

StoreSpec == Init /\ [][StoreNext]_vars

(* ------------------------------ catalog properties --------------------- *)
\* the step is one invocation of the named catalog handler
Handled(op) == opCount' = opCount + 1 /\ lastOp'.op = op

HasRecord(id) == \E i \in 1..Len(catalog) : catalog[i].id = id

FileGone(id) == \E i \in 1..Len(catalog) : catalog[i].id = id /\ catalog[i].path \notin files

\* nothing of the name survives sanitizing: it holds white space and illegal characters only
NameIsEmpty(n) == \A i \in 1..Len(n) : n[i] = " " \/ n[i] \in IllegalToks

RenameFailsCleanly ==
    Handled("rename") =>
        LET req == lastOp'.req
            rejected == ~HasRecord(req.id) \/ FileGone(req.id) \/ NameIsEmpty(req.newBaseName)
        IN /\ rejected =>
                /\ lastOp'.status = "threw"
                /\ files' = files
                /\ catalog' = catalog
                /\ lastOp'.events = << >>
           /\ ~HasRecord(req.id) => ErrCode(lastOp'.error) = "FILE_NOT_FOUND"
           /\ FileGone(req.id) => ErrCode(lastOp'.error) = "FILE_NOT_FOUND"
           /\ (HasRecord(req.id) /\ ~FileGone(req.id) /\ NameIsEmpty(req.newBaseName)) =>
                 ErrCode(lastOp'.error) = "VALIDATION_ERROR"

\* C14: a rename of an unknown id fails with FILE_NOT_FOUND, a rename of a record whose
\* file is gone from disk fails with FILE_NOT_FOUND, a rename to a name that sanitizes to
\* nothing fails with VALIDATION_ERROR; in each case the files and the catalog stay as
\* they were and no generated-changed event is emitted.
C14_RenameRejectionsChangeNothing == [][RenameFailsCleanly]_vars

\* a rename of a catalogued record was rejected because its file had vanished
C14_Witness ==
    /\ lastOp.op = "rename"
    /\ lastOp.status = "threw"
    /\ lastOp.error.message = "Arquivo não existe mais no disco."
    /\ \E i \in 1..Len(catalog) : catalog[i].id = lastOp.req.id /\ catalog[i].path \notin files

\* r.fileName is the last component of r.path
NameMatchesPath(r) ==
    /\ \A i \in 1..Len(r.fileName) : r.fileName[i] # "/"
    /\ \E n \in 1..Len(r.path) :
          /\ r.path[n] = "/"
          /\ r.path = SubSeq(r.path, 1, n) \o r.fileName

RenameKeepsIdentity ==
    /\ (Handled("rename") /\ lastOp'.status = "ok") =>
          /\ Len(catalog') = Len(catalog)
          /\ \A i \in 1..Len(catalog) :
                IF catalog[i].id = lastOp'.req.id
                THEN /\ catalog'[i] = lastOp'.item
                     /\ \A f \in DOMAIN catalog[i] \ {"path", "fileName"} : catalog'[i][f] = catalog[i][f]
                     /\ DOMAIN catalog'[i] = DOMAIN catalog[i]
                     /\ catalog'[i].path # catalog[i].path
                     /\ catalog'[i].path \in files'
                ELSE catalog'[i] = catalog[i]
    \* whatever the step, a record that stays in the catalog keeps its id and its place
    \* among the records that stay
    /\ LET ids(c) == [i \in 1..Len(c) |-> c[i].id]
           kept == {catalog'[i].id : i \in 1..Len(catalog')}
       IN SelectSeq(ids(catalog), LAMBDA x : x \in kept) = SubSeq(ids(catalog'), 1, Len(SelectSeq(ids(catalog), LAMBDA x : x \in kept)))

\* C15: in every reachable catalog each record's fileName is the base name of its path,
\* and a successful rename replaces the path and fileName of the targeted record only:
\* its id, format, language, modelId, createdAtISO stay, and so does every other record.
C15_NameFollowsPathIdStays ==
    /\ [](\A i \in 1..Len(catalog) : NameMatchesPath(catalog[i]))
    /\ [][RenameKeepsIdentity]_vars

\* a rename that had to take a suffixed name, with another record in the catalog
C15_Witness ==
    /\ lastOp.op = "rename"
    /\ lastOp.status = "ok"
    /\ Len(catalog) >= 2
    /\ \E i \in 1..Len(lastOp.item.fileName) : lastOp.item.fileName[i] = " ("
    /\ \E i \in 1..Len(catalog) : catalog[i] = lastOp.item

DeleteOfVanishedFile ==
    (Handled("delete") /\ FileGone(lastOp'.req.id)) =>
        /\ lastOp'.status = "ok"
        /\ ~lastOp'.unlinked
        /\ files' = files
        /\ catalog' = SelectSeq(catalog, LAMBDA r : r.id # lastOp'.req.id)
        /\ Len(catalog') = Len(catalog) - 1
        /\ Len(lastOp'.events) = 1
        /\ lastOp'.events[1].reason = "DELETED"

\* C16: deleting a catalogued record whose file is no longer on disk does not fail: no
\* file is touched, the record leaves the catalog, one generated-changed event with
\* reason DELETED is emitted and the call returns ok.
C16_DeleteToleratesMissingFile == [][DeleteOfVanishedFile]_vars

\* a delete returned ok for a record whose file had been removed behind the catalog's back
C16_Witness ==
    /\ lastOp.op = "delete"
    /\ lastOp.status = "ok"
    /\ ~lastOp.unlinked
    /\ \A i \in 1..Len(catalog) : catalog[i].id # lastOp.req.id

ListReflectsDisk ==
    /\ Handled("list") =>
          /\ lastOp'.status = "ok"
          /\ Len(lastOp'.items) = Len(catalog)
          /\ \A i \in 1..Len(catalog) :
                /\ lastOp'.items[i].exists = (catalog[i].path \in files)
                /\ [lastOp'.items[i] EXCEPT !.exists = catalog[i].exists] = catalog[i]
          /\ catalog' = catalog
          /\ files' = files
    \* a file that comes or goes without the application takes no record with it
    /\ (files' # files /\ opCount' = opCount /\ pc' = pc) => catalog' = catalog

\* C17: a listing returns the catalog's records in catalog order, each with exists set to
\* whether a file is at the record's path when the listing is made, whatever exists value
\* the record is stored with; a file removed or put back from outside leaves the record
\* in the catalog, so the next listing shows the changed flag.
C17_ListRecomputesExists == [][ListReflectsDisk]_vars

\* a listing reported a record, stored with exists true, as missing from disk
C17_Witness ==
    /\ lastOp.op = "list"
    /\ \E i \in 1..Len(lastOp.items) :
          /\ ~lastOp.items[i].exists
          /\ i <= Len(catalog)
          /\ catalog[i].exists
          /\ catalog[i].id = lastOp.items[i].id

\* c2 is c1 with one record appended under an id c1 does not hold
IsAdd(c1, c2) ==
    /\ Len(c2) = Len(c1) + 1
    /\ SubSeq(c2, 1, Len(c1)) = c1
    /\ \A i \in 1..Len(c1) : c1[i].id # c2[Len(c2)].id

\* c2 is c1 with the path and fileName of the record id replaced
IsUpdate(c1, c2, id) ==
    /\ Len(c2) = Len(c1)
    /\ \E i \in 1..Len(c1) : c1[i].id = id
    /\ \A i \in 1..Len(c1) :
          IF c1[i].id = id
          THEN [c2[i] EXCEPT !.path = c1[i].path, !.fileName = c1[i].fileName] = c1[i]
          ELSE c2[i] = c1[i]

\* c2 is c1 without the record id
IsRemove(c1, c2, id) ==
    /\ \E i \in 1..Len(c1) : c1[i].id = id
    /\ c2 = SelectSeq(c1, LAMBDA r : r.id # id)

OneMutationAtATime ==
    /\ \/ catalog' = catalog
       \/ IsAdd(catalog, catalog')
       \/ \E id \in ItemIds : IsUpdate(catalog, catalog', id)
       \/ \E id \in ItemIds : IsRemove(catalog, catalog', id)
    /\ (\E j \in JobIds : pc[j] = "sleeping" /\ pc'[j] = "ok") => IsAdd(catalog, catalog')
    /\ (Handled("rename") /\ lastOp'.status = "ok") => IsUpdate(catalog, catalog', lastOp'.req.id)
    /\ (Handled("delete") /\ lastOp'.status = "ok") => IsRemove(catalog, catalog', lastOp'.req.id)

\* C18: every step takes the catalog as the previous step left it and applies at most
\* one mutation to it (one record added by a completing job, one record's path and
\* fileName replaced by a rename, one record removed by a delete), all other records
\* staying as they are: whatever the interleaving of jobs, renames and deletes, no
\* update is lost and the catalog is the result of the mutations in the order of the steps.
C18_CatalogMutationsAreSerial == [][OneMutationAtATime]_vars

\* a rename went through while another job was suspended between its run and its save
C18_Witness ==
    /\ lastOp.op = "rename"
    /\ lastOp.status = "ok"
    /\ \E j \in JobIds : pc[j] = "sleeping"
    /\ \E i \in 1..Len(catalog) : catalog[i] = lastOp.item

(* ------------------------------ order of side effects ------------------ *)
\* the positions of a trace whose entry satisfies Is
At(T, Is(_)) == {i \in 1..Len(T) : Is(T[i])}

IsProgress(step, e) == e.type = "progress" /\ e.step = step

IsWrite(path, e) == e.type = "effect" /\ e.op = "write" /\ e.path = path

IsStoreAdd(e) == e.type = "effect" /\ e.op = "store.add"

IsCreated(e) == e.type = "generatedChanged" /\ e.reason = "CREATED"

IsDone(e) == e.type = "done"

IsError(e) == e.type = "error"

\* every position of B has a position of A before it
Precedes(A, B) == \A b \in B : \E a \in A : a < b

\* C21: in every job's trace the output file is written before SAVING is announced, the
\* record is handed to the store after SAVING, the CREATED notification follows the
\* store.add and the done event follows the notification; a successful job has all of them,
\* and the events of the trace are the events sent.
C21_SideEffectsInOrder ==
    \A j \in JobIds :
        LET T == trace[j]
            writes == At(T, LAMBDA e : IsWrite(jobReq[j].outputPath, e))
            saving == At(T, LAMBDA e : IsProgress("SAVING", e))
            adds == At(T, IsStoreAdd)
            created == At(T, IsCreated)
            done == At(T, IsDone)
        IN /\ Precedes(writes, saving)
           /\ Precedes(saving, adds)
           /\ Precedes(adds, created)
           /\ Precedes(created, done)
           /\ SelectSeq(T, LAMBDA e : e.type # "effect") = events[j]
           /\ pc[j] = "ok" => done # {}

\* a job that converted to ass completed
C21_Witness ==
    \E j \in JobIds :
        /\ pc[j] = "ok"
        /\ jobReq[j].format = "ass"
        /\ \E i \in 1..Len(trace[j]) : IsStoreAdd(trace[j][i])

\* C22: when the requested format is not the native one, CONVERTING is announced before
\* the converted file is produced and before the output path is written.
C22_ConvertingBeforeConversion ==
    \A j \in JobIds :
        jobReq[j].format # "srt" =>
            LET T == trace[j]
                converting == At(T, LAMBDA e : IsProgress("CONVERTING", e))
                writes == At(T, LAMBDA e : e.type = "effect" /\ e.op = "write")
            IN Precedes(converting, writes)

\* C23: the done event of a job is never emitted before that job's DONE progress event.
C23_DoneProgressBeforeDoneEvent ==
    \A j \in JobIds :
        Precedes(At(events[j], LAMBDA e : IsProgress("DONE", e)), At(events[j], IsDone))

(* ------------------------------ catalog handlers: failures ------------- *)
OsErrorTexts == {"EPERM: operation not permitted", "ENOENT: no such file or directory"}

\* the step is a rename or a delete that got as far as its fs call and left the disk as
\* it was: the fs call raised
FsActionFailed(op) ==
    /\ Handled(op)
    /\ HasRecord(lastOp'.req.id)
    /\ ~FileGone(lastOp'.req.id)
    /\ op = "rename" => ~NameIsEmpty(lastOp'.req.newBaseName)
    /\ files' = files

FailedFsActionChangesNothing ==
    \A op \in {"rename", "delete"} :
        FsActionFailed(op) =>
            /\ lastOp'.status = "threw"
            /\ ErrCode(lastOp'.error) = (IF op = "rename" THEN "FILE_RENAME_FAILED" ELSE "FILE_DELETE_FAILED")
            /\ lastOp'.error.appError.details \in OsErrorTexts
            /\ catalog' = catalog
            /\ lastOp'.events = << >>

\* C24: when renameSync or unlinkSync raises, the rename fails with FILE_RENAME_FAILED and
\* the delete with FILE_DELETE_FAILED, the error carrying the text of the OS error; the
\* catalog stays as it was and no generated-changed event is emitted.
C24_FsFailureLeavesCatalog == [][FailedFsActionChangesNothing]_vars

\* a delete failed at unlinkSync: the record and its file are both still there
C24_Witness ==
    /\ lastOp.op = "delete"
    /\ lastOp.status = "threw"
    /\ ErrCode(lastOp.error) = "FILE_DELETE_FAILED"
    /\ \E i \in 1..Len(catalog) : catalog[i].id = lastOp.req.id /\ catalog[i].path \in files

DeleteOfUnknownId ==
    Handled("delete") =>
        /\ ~HasRecord(lastOp'.req.id) =>
              /\ lastOp'.status = "threw"
              /\ ErrCode(lastOp'.error) = "FILE_NOT_FOUND"
              /\ lastOp'.events = << >>
              /\ files' = files
              /\ catalog' = catalog
        \* the latest catalog call was a successful delete of the same id
        /\ (lastOp.op = "delete" /\ lastOp.status = "ok" /\ lastOp.req.id = lastOp'.req.id) =>
              /\ lastOp'.status = "threw"
              /\ ErrCode(lastOp'.error) = "FILE_NOT_FOUND"

\* C25: a delete of an id the catalog does not hold fails with FILE_NOT_FOUND, emits no
\* event and removes no file; so of two deletes of the same id the first returns ok and
\* the second fails with FILE_NOT_FOUND.
C25_DeleteUnknownIdFails == [][DeleteOfUnknownId]_vars

\* the second delete of an id that had been created and deleted
C25_Witness ==
    /\ lastOp.op = "delete"
    /\ lastOp.status = "threw"
    /\ ErrCode(lastOp.error) = "FILE_NOT_FOUND"
    /\ opCount = 2
    /\ lastOp.req.id <= itemsCreated
    /\ \E j \in JobIds : pc[j] = "ok"
    /\ catalog = << >>

OpenAndRevealOnlyLook ==
    /\ Handled("open") =>
          /\ (~HasRecord(lastOp'.req.id) \/ FileGone(lastOp'.req.id)) =>
                /\ lastOp'.status = "threw"
                /\ ErrCode(lastOp'.error) = "FILE_NOT_FOUND"
          /\ (HasRecord(lastOp'.req.id) /\ ~FileGone(lastOp'.req.id)) => lastOp'.status = "ok"
    /\ Handled("showInFolder") =>
          /\ ~HasRecord(lastOp'.req.id) =>
                /\ lastOp'.status = "threw"
                /\ ErrCode(lastOp'.error) = "FILE_NOT_FOUND"
          /\ HasRecord(lastOp'.req.id) => lastOp'.status = "ok"
    /\ (Handled("open") \/ Handled("showInFolder")) =>
          /\ catalog' = catalog
          /\ files' = files
          /\ lastOp'.events = << >>

\* C26: opening fails with FILE_NOT_FOUND when the id is not in the catalog or the
\* record's file is gone from disk, revealing fails with FILE_NOT_FOUND when the id is not
\* in the catalog; whether they fail or return ok, neither changes the catalog or emits a
\* generated-changed event.
C26_OpenAndRevealOnlyLook == [][OpenAndRevealOnlyLook]_vars

\* an open was refused for a catalogued record whose file had vanished
C26_Witness ==
    /\ lastOp.op = "open"
    /\ lastOp.status = "threw"
    /\ lastOp.error.message = "Arquivo não existe mais no disco."
    /\ \E i \in 1..Len(catalog) : catalog[i].id = lastOp.req.id /\ catalog[i].path \notin files

\* C27: no record handed to the store carries an exists value, neither the one JOB_START
\* gives to store.add nor the one GENERATED_RENAME gives to store.update.
C27_ExistsNeverHandedToStore ==
    /\ \A j \in JobIds : \A i \in 1..Len(trace[j]) :
          IsStoreAdd(trace[j][i]) => "exists" \notin DOMAIN trace[j][i].record
    /\ (lastOp.op = "rename" /\ lastOp.status = "ok") => "exists" \notin DOMAIN lastOp.item

(* ------------------------------ termination ---------------------------- *)
\* runner.run() settles (the engine exits, fails or dies of the cancel) and the timer of
\* sleep(50) fires
Fairness ==
    \A j \in JobIds :
        /\ WF_vars((RunRejected(j) \/ \E io \in {"ok", "convertFails"} : RunResolved(j, io)) /\ UNCHANGED ui)
        /\ WF_vars((\E io \in {"ok", "addFails", "readFails"} : SleepDone(j, io)) /\ UNCHANGED ui)

\* the requests that pass validation
ValidRequests == {req \in Requests : Validate(req) = << >>}

\* the jobs that pass validation, with the cancels that find a runner
LiveNext ==
    \/ \E req \in ValidRequests : StartJob(req) /\ UNCHANGED ui
    \/ \E j \in JobIds, io \in {"ok", "convertFails"} : RunResolved(j, io) /\ UNCHANGED ui
    \/ \E j \in JobIds : RunRejected(j) /\ UNCHANGED ui
    \/ \E j \in JobIds, io \in {"ok", "addFails", "readFails"} : SleepDone(j, io) /\ UNCHANGED ui
    \/ \E jobId \in DOMAIN runners : CancelJob(jobId) /\ UNCHANGED ui

FairSpec == Init /\ [][LiveNext]_vars /\ Fairness

\* the number of terminal events (done or error) sent for job j
TerminalEvents(j) == Cardinality(At(events[j], IsDone)) + Cardinality(At(events[j], IsError))

\* C28: a JOB_START invocation that passed validation sends, once its run has settled
\* and its timer has fired, exactly one terminal event for its job, a done event or an
\* error event; no job ever has more than one, and the invocation has returned ok exactly
\* when the done event has been sent.
C28_ExactlyOneTerminalEvent ==
    /\ [](\A j \in JobIds :
            /\ TerminalEvents(j) <= 1
            /\ result[j].status = "ok" <=> At(events[j], IsDone) # {})
    /\ \A j \in JobIds : (pc[j] = "transcribing") ~> (TerminalEvents(j) = 1 /\ pc[j] \in {"ok", "failed"})

\* one job ended with its done event, another with its error event
C28_Witness ==
    \E j, k \in JobIds :
        /\ result[j].status = "ok" /\ At(events[j], IsDone) # {} /\ At(events[j], IsError) = {}
        /\ result[k].status = "threw" /\ At(events[k], IsError) # {} /\ At(events[k], IsDone) = {}

(* ------------------------------ failed and cancelled jobs -------------- *)
\* C29: a job for which an error event was emitted has handed no record to the store and
\* has emitted no generated-changed event with reason CREATED.
C29_ErrorLeavesNoRecord ==
    \A j \in JobIds :
        At(events[j], IsError) # {} =>
            /\ At(trace[j], IsStoreAdd) = {}
            /\ At(events[j], IsCreated) = {}

\* JOB_CANCEL found the runner of job j registered, cancelled and deregistered it
CancelledWithRunner(j) == jobRunner[j] # 0 /\ cancelCalls[jobRunner[j]] >= 1

\* C30: a job whose runner a JOB_CANCEL found registered and deregistered never hands a
\* record to the store and never emits a done event, also when the cancel came after the
\* run had resolved.
C30_CancelledJobNeverCompletes ==
    \A j \in JobIds :
        CancelledWithRunner(j) =>
            /\ At(trace[j], IsStoreAdd) = {}
            /\ At(events[j], IsDone) = {}

(* ------------------------------ catalog: paths ------------------------- *)
\* C31: no two catalog records have the same path.
C31_PathsAreDistinct ==
    \A i, k \in 1..Len(catalog) : i # k => catalog[i].path # catalog[k].path

\* the base name of a record's file: its fileName without the extension of its path
CurrentBaseName(r) == basenameNoExt(r.path, extname(r.path))

RenameToOwnName ==
    Handled("rename") =>
        \A i \in 1..Len(catalog) :
            (catalog[i].id = lastOp'.req.id
               /\ sanitizeBaseName(lastOp'.req.newBaseName) = CurrentBaseName(catalog[i])) =>
                /\ Len(catalog') = Len(catalog)
                /\ catalog'[i].path = catalog[i].path
                /\ catalog'[i].fileName = catalog[i].fileName

\* C32: a rename whose sanitized new base name is the record's current base name leaves
\* the record's path and fileName as they were.
C32_RenameToOwnNameIsNoOp == [][RenameToOwnName]_vars

(* ------------------------------ language and model --------------------- *)
\* requests that carry or omit the language and the model
DefaultsRequests ==
    { [format |-> "srt", audioPath |-> AudioFile, outputPath |-> OutSrt, language |-> "en", modelId |-> "base"],
      [format |-> "ass", audioPath |-> AudioFile, outputPath |-> OutAss, language |-> "", modelId |-> "small"],
      [format |-> "srt", audioPath |-> AudioFile, outputPath |-> OutSrt, modelId |-> "base"],
      [format |-> "ass", audioPath |-> AudioFile, outputPath |-> OutAss] }

DefaultsNext ==
    \/ \E req \in DefaultsRequests : StartJob(req) /\ UNCHANGED ui
    \/ \E j \in JobIds : RunResolved(j, "ok") /\ UNCHANGED ui
    \/ \E j \in JobIds : RunRejected(j) /\ UNCHANGED ui
    \/ \E j \in JobIds : SleepDone(j, "ok") /\ UNCHANGED ui

DefaultsSpec == Init /\ [][DefaultsNext]_vars

IsRun(e) == e.type = "effect" /\ e.op = "runner.run"

\* C33: the language and the model identifier of the record a job hands to the store
\* are the language and the model its runner was given, also when the request omits them
\* and the runner is given the defaults.
C33_RecordHoldsWhatTheRunnerGot ==
    \A j \in JobIds :
        \A a \in At(trace[j], IsStoreAdd), r \in At(trace[j], IsRun) :
            /\ trace[j][a].record.language = trace[j][r].args.language
            /\ trace[j][a].record.modelId = trace[j][r].args.model

(* ============================ the renderer ============================== *)
(* App.tsx. One action is one user gesture with the handler it runs, the   *)
(* modal dialog it opens and the request it sends included, or the         *)
(* delivery of one event the main process has sent to the window. Events   *)
(* reach the window in the order they were sent.                           *)

\* bound on the number of user gestures
MaxClicks == 5

mainVars == <<started, jobReq, pc, result, jobRunner, runners, runnerState, runCalls,
              cancelCalls, cancelLog, lastCancelled, itemsCreated, catalog, files,
              lastOp, opCount, events, trace>>

\* part_000 lines 42 and 268: the audio extensions
AudioExtToks == {".mp3", ".wav", ".m4a", ".aac", ".ogg", ".flac"}

\* the directory the user picks in the save dialog
SaveDir == <<"/", "out">>

\* App.tsx lines 7-10: the name up to its last dot, the name itself when the dot opens it
baseNameFromFile(name) ==
    IF Len(name) >= 2 /\ name[Len(name)] \in (ExtToks \cup AudioExtToks)
    THEN SubSeq(name, 1, Len(name) - 1)
    ELSE name

\* PICK_AUDIO: the user cancels the open dialog, or picks the file p
PickAudio(p) ==
    IF p = EmptyPath
    THEN [ok |-> FALSE, canceled |-> TRUE]
    ELSE [ok |-> TRUE, file |-> [path |-> p, name |-> basename(p)]]

\* CHOOSE_OUTPUT: the save dialog proposes `${suggestedBaseName}.${ext}` with ext taken from
\* the format of the request; the user cancels, or accepts the proposal in SaveDir
ChooseOutput(req, accepted) ==
    LET ext == IF req.format = "ass" THEN ".ass" ELSE ".srt"
    IN IF ~accepted
       THEN [ok |-> FALSE, canceled |-> TRUE]
       ELSE [ok |-> TRUE, path |-> join(SaveDir, req.suggestedBaseName \o <<ext>>)]

\* the value of selectedId seen by the subscriptions: the effect of lines 167-199 runs once
\* (dependency list []), so its callbacks keep the refreshGenerated of the first render
MountSelectedId == NoUi.selectedId

\* the answer of GENERATED_LIST to a refreshGenerated(selectId) whose closure captured
\* selectedId
Listing(items, selectId, selectedId, caller) ==
    [type |-> "listing", items |-> items, selectId |-> selectId, selectedId |-> selectedId,
     caller |-> caller]

\* App.tsx line 159, for the catalog cat on the disk fs: the list is asked for, and its
\* answer reaches the window after everything the main process has sent so far; caller
\* names the place the refresh was asked from
refreshGenerated(u, cat, fs, selectId, selectedId, caller) ==
    [u EXCEPT !.inbox = @ \o << Listing(ListItems(cat, fs), selectId, selectedId, caller) >>]

\* App.tsx lines 160-164, once the list has arrived
Refreshed(u, m) ==
    [u EXCEPT !.generated = m.items,
              !.selectedId = IF m.selectId # NoId THEN m.selectId
                             ELSE IF Len(m.items) > 0 /\ m.selectedId = NoId THEN IdText(m.items[1].id)
                             ELSE @]

\* the answer of a catalog handler to the invocation made with the closure selectedId
Answer(op, selectedId) == [type |-> "answer", op |-> op, selectedId |-> selectedId]

\* App.tsx lines 249-255
chooseOutput(u, accepted) ==
    IF u.audio = << >> THEN u
    ELSE LET res == ChooseOutput([suggestedBaseName |-> baseNameFromFile(u.audio[1].name),
                                  format |-> u.format], accepted)
         IN IF ~res.ok THEN u ELSE [u EXCEPT !.outputPath = res.path]

Gesture(u, name, dialog) ==
    [u EXCEPT !.clicks = @ + 1, !.last = [gesture |-> name, dialog |-> dialog]]

\* the events this step of the main process sent to the window
Posted ==
    LET J == {j \in JobIds : Len(events'[j]) > Len(events[j])}
    IN IF J = {} THEN << >>
       ELSE LET j == CHOOSE k \in J : TRUE
            IN SubSeq(events'[j], Len(events[j]) + 1, Len(events'[j]))

PostToRenderer == ui' = [ui EXCEPT !.inbox = @ \o Posted]

\* the effect of lines 167-199 on mount: the first refresh
UiMount ==
    /\ ~ui.mounted
    /\ ui' = refreshGenerated([ui EXCEPT !.mounted = TRUE], catalog, files, NoId, MountSelectedId, "mount")
    /\ UNCHANGED mainVars

\* the pick-audio button (line 453) and pickAudio, lines 235-247
UiPickAudio(p) ==
    /\ ui.mounted /\ ui.clicks < MaxClicks
    /\ ~ui.busy
    /\ LET res == PickAudio(p)
           u == Gesture(ui, "pickAudio", "pickAudio")
       IN ui' = IF ~res.ok THEN u
                ELSE [u EXCEPT !.audio = <<res.file>>, !.outputPath = EmptyPath, !.step = "IDLE"]
    /\ UNCHANGED mainVars

\* the format buttons, lines 490-497
UiSetFormat(f) ==
    /\ ui.mounted /\ ui.clicks < MaxClicks
    /\ ~ui.busy
    /\ ui' = [Gesture(ui, "setFormat", "none") EXCEPT !.format = f]
    /\ UNCHANGED mainVars

\* line 148
canChooseOutput(u) == u.audio # << >> /\ ~u.busy

\* the choose-output button (line 532) and chooseOutput
UiChooseOutput(accepted) ==
    /\ ui.mounted /\ ui.clicks < MaxClicks
    /\ canChooseOutput(ui)
    /\ ui' = chooseOutput(Gesture(ui, "chooseOutput", "chooseOutput"), accepted)
    /\ UNCHANGED mainVars

\* variant: start() sends the request without looking at the output path
NeedsOutputNever(u) == u.outputPath # u.outputPath

\* line 261: !outputPath
NeedsOutput(u) == u.outputPath = EmptyPath

\* lines 271-278: the request start() sends
StartRequest(u) ==
    [audioPath |-> u.audio[1].path,
     outputPath |-> u.outputPath,
     language |-> u.language,
     modelId |-> u.modelId,
     format |-> u.format,
     granularity |-> u.granularity]

\* the generate button (lines 541-548, disabled when there is no audio or a job is in
\* flight) and start, lines 257-279, with JOB_START up to its first await
UiStart(accepted) ==
    /\ ui.mounted /\ ui.clicks < MaxClicks
    /\ ui.audio # << >> /\ ~ui.busy
    /\ IF NeedsOutput(ui)
       THEN /\ ui' = chooseOutput(Gesture(ui, "generate", "chooseOutput"), accepted)
            /\ UNCHANGED mainVars
       ELSE /\ StartJob(StartRequest(ui))
            /\ ui' = [Gesture(ui, "generate", "none") EXCEPT
                         !.busy = TRUE, !.step = "PREPARING", !.inbox = @ \o Posted]

\* lines 328-330 and 339-341, after GENERATED_DELETE has answered
AfterDelete(u, m) ==
    IF m.op.status = "threw" THEN u
    ELSE refreshGenerated([u EXCEPT !.selectedId = IF m.selectedId = IdText(m.op.req.id) THEN NoId ELSE @],
                          catalog, files, NoId, m.selectedId, "deleteItem")

\* lines 311-314, after GENERATED_RENAME has answered
AfterRename(u, m) ==
    IF m.op.status = "threw" THEN u
    ELSE refreshGenerated(u, catalog, files, IdText(m.op.item.id), m.selectedId, "confirmRename")

\* the window handles the oldest message it was sent: an event (lines 170-190), the list a
\* refresh asked for, or the answer a gesture is waiting for
UiDeliver ==
    /\ ui.mounted
    /\ ui.inbox # << >>
    /\ LET e == Head(ui.inbox)
           u == [ui EXCEPT !.inbox = Tail(@)]
       IN ui' = CASE e.type = "progress" -> [u EXCEPT !.step = e.step]
                  [] e.type = "done" ->
                        refreshGenerated([u EXCEPT !.busy = FALSE, !.step = "DONE"],
                                         catalog, files, IdText(e.generated.id), MountSelectedId, "onJobDone")
                  [] e.type = "error" -> [u EXCEPT !.busy = FALSE, !.step = "ERROR"]
                  [] e.type = "generatedChanged" ->
                        refreshGenerated(u, catalog, files, NoId, MountSelectedId, "onGeneratedChanged")
                  [] e.type = "listing" -> Refreshed(u, e)
                  [] e.type = "answer" /\ e.op.op = "delete" -> AfterDelete(u, e)
                  [] e.type = "answer" /\ e.op.op = "rename" -> AfterRename(u, e)
    /\ UNCHANGED mainVars

\* the dialogs' outcomes: the audio file, or nothing
PickedAudio == {EmptyPath, AudioFile}

UiNext ==
    \/ UiMount
    \/ \E p \in PickedAudio : UiPickAudio(p)
    \/ \E f \in {"srt", "ass"} : UiSetFormat(f)
    \/ \E accepted \in BOOLEAN : UiChooseOutput(accepted)
    \/ \E accepted \in BOOLEAN : UiStart(accepted)
    \/ \E j \in JobIds : RunResolved(j, "ok") /\ PostToRenderer
    \/ \E j \in JobIds : RunRejected(j) /\ PostToRenderer
    \/ \E j \in JobIds, io \in {"ok", "addFails"} : SleepDone(j, io) /\ PostToRenderer
    \/ UiDeliver

UiSpec == Init /\ [][UiNext]_vars

(* --------------------- what the renderer asks for ---------------------- *)

\* this step called JOB_START
StartJobCalled == started' = started + 1

\* this step was a click on the generate button
GenerateClicked == ui'.clicks = ui.clicks + 1 /\ ui'.last.gesture = "generate"

StartOnlyWithValidatedInput ==
    /\ StartJobCalled =>
          /\ ~Falsy(jobReq'[started'], "audioPath")
          /\ ~Falsy(jobReq'[started'], "outputPath")
          /\ ~ui.busy
    /\ (GenerateClicked /\ ui.outputPath = EmptyPath) =>
          /\ ~StartJobCalled
          /\ ui'.last.dialog = "chooseOutput"

\* C34: the renderer calls startJob only with a non-empty audio path and a non-empty output
\* path and only while busy is false; a click on generate with no output path opens the
\* output chooser and starts no job
C34_StartJobOnlyWithValidatedInput == [][StartOnlyWithValidatedInput]_vars

\* a job launched by a click on generate is in flight
C34_Witness == started >= 1 /\ ui.busy /\ ui.last.gesture = "generate" /\ pc[started] = "transcribing"

(* ------------------------ busy and the job events ---------------------- *)

\* C35: busy is never true while the step shown is DONE or ERROR: busy is set by the start()
\* that launches a job and cleared by that job's done or error event
C35_NeverBusyAtTerminalStep == ~(ui.busy /\ ui.step \in {"DONE", "ERROR"})

(* ------------------- the output path and the format -------------------- *)

OutputMatchesFormat(req) ==
    extname(req.outputPath) = (IF req.format = "ass" THEN <<".ass">> ELSE <<".srt">>)

\* C36: whenever the renderer calls startJob, the extension of the output path matches the
\* format of the request
C36_OutputExtensionMatchesFormat == [][StartJobCalled => OutputMatchesFormat(jobReq'[started'])]_vars

(* ----------------------------- the stepper ----------------------------- *)

\* App.tsx lines 19-25
STEPS == <<"PREPARING", "TRANSCRIBING", "CONVERTING", "SAVING", "DONE">>

\* STEPS.findIndex((s) => s.key === step): zero-based, -1 when no step has the key
findIndex(step) ==
    IF \E i \in 1..Len(STEPS) : STEPS[i] = step
    THEN (CHOOSE i \in 1..Len(STEPS) : STEPS[i] = step) - 1
    ELSE -1

\* lines 358-362
flowIndex(step) == IF step = "IDLE" THEN -1 ELSE findIndex(step)

\* line 573: the nodes drawn as failed, isError = step === "ERROR" && i === Math.max(flowIndex, 0)
ErrorNodes(step) ==
    LET f == flowIndex(step)
    IN {i \in 0..(Len(STEPS) - 1) : step = "ERROR" /\ i = (IF f > 0 THEN f ELSE 0)}

\* the window handles an event of the given type in this step
Delivered(type) ==
    /\ ui.mounted
    /\ ui.inbox # << >>
    /\ Head(ui.inbox).type = type
    /\ ui' # ui
    /\ ui'.clicks = ui.clicks
    /\ UNCHANGED mainVars

\* the phase of the last progress event job j has sent
LastPhase(j) ==
    LET P == {i \in 1..Len(events[j]) : events[j][i].type = "progress"}
    IN events[j][CHOOSE i \in P : \A k \in P : k <= i].step

\* C37: when the error event of a job is handled, the stepper marks as failed the step of
\* the last progress event received before it
C37_StepperMarksFailedStep ==
    [][Delivered("error") => ErrorNodes(ui'.step) = {findIndex(LastPhase(Head(ui.inbox).jobId))}]_vars

(* ---------------------- the selection in the list ---------------------- *)
(* The window opens on a catalog persisted by earlier sessions; the user    *)
(* selects, renames and deletes artifacts.                                  *)

\* bound on the number of records persisted by earlier sessions
MaxStored == 3

\* bound on the number of gestures made on the list
MaxPicks == 3

StoredIds == 1..MaxStored

StoredPath(k) == <<"/", "out", "/", DigitTok(k), ".srt">>

\* the record an earlier job left for the output StoredPath(k)
StoredRecord(k) ==
    CreatedRecord(ReqBase("srt") @@ [audioPath |-> AudioFile, outputPath |-> StoredPath(k)], k, k)

\* part_000 line 35: the store is constructed on the records persisted in userData; the
\* file of the oldest one may be gone
SelectInit ==
    /\ started = 0
    /\ jobReq = [j \in JobIds |-> NoRequest]
    /\ pc = [j \in JobIds |-> "unused"]
    /\ result = [j \in JobIds |-> NoResult]
    /\ jobRunner = [j \in JobIds |-> 0]
    /\ runners = << >>
    /\ runnerState = [r \in RunnerIds |-> "new"]
    /\ runCalls = [r \in RunnerIds |-> 0]
    /\ cancelCalls = [r \in RunnerIds |-> 0]
    /\ cancelLog = << >>
    /\ lastCancelled = 0
    /\ itemsCreated = MaxStored
    /\ catalog = [k \in StoredIds |-> StoredRecord(k)]
    /\ \E gone \in SUBSET {StoredPath(1)} :
          files = ({AudioFile} \cup {StoredPath(k) : k \in StoredIds}) \ gone
    /\ lastOp = NoOp
    /\ opCount = 0
    /\ events = [j \in JobIds |-> << >>]
    /\ trace = [j \in JobIds |-> << >>]
    /\ ui = NoUi

Listed(id) == \E i \in 1..Len(ui.generated) : ui.generated[i].id = id

ListedItem(id) == ui.generated[CHOOSE i \in 1..Len(ui.generated) : ui.generated[i].id = id]

\* line 761: a click on an item of the list
UiSelect(id) ==
    /\ ui.mounted /\ ui.clicks < MaxPicks
    /\ Listed(id)
    /\ ui' = [Gesture(ui, "select", "none") EXCEPT !.selectedId = IdText(id)]
    /\ UNCHANGED mainVars

\* GENERATED_DELETE or GENERATED_RENAME has run: its notification, then its answer, are on
\* their way to the window
Invoked(u) == [u EXCEPT !.inbox = @ \o lastOp'.events \o << Answer(lastOp', ui.selectedId) >>]

\* the delete entry of the menu for an artifact whose file exists (lines 818, 936) and
\* deleteItem, lines 320-328, with the confirm dialog
UiDelete(id, confirmed, io) ==
    /\ ui.mounted /\ ui.clicks < MaxPicks
    /\ Listed(id) /\ ListedItem(id).exists
    /\ IF ~confirmed
       THEN /\ ui' = Gesture(ui, "delete", "confirm")
            /\ UNCHANGED mainVars
       ELSE /\ DeleteGenerated([id |-> id], io)
            /\ ui' = Invoked(Gesture(ui, "delete", "confirm"))

\* the same entry for an artifact whose file is gone, and removeFromHistoryOnly, lines 336-339
UiRemoveFromHistory(id) ==
    /\ ui.mounted /\ ui.clicks < MaxPicks
    /\ Listed(id) /\ ~ListedItem(id).exists
    /\ DeleteGenerated([id |-> id], "ok")
    /\ ui' = Invoked(Gesture(ui, "removeFromHistory", "none"))

\* the rename entry of the menu (lines 809, 924): openRenameModal, lines 289-295, the name
\* typed into the dialog, and confirmRename, lines 304-310
UiRename(id, name, io) ==
    /\ ui.mounted /\ ui.clicks < MaxPicks
    /\ Listed(id)
    /\ LET u == [Gesture(ui, "rename", "rename") EXCEPT !.selectedId = IdText(id)]
           v == sanitizeBaseName(name)
       IN IF NameIsEmpty(v)
          THEN /\ ui' = u
               /\ UNCHANGED mainVars
          ELSE /\ RenameGenerated([id |-> id, newBaseName |-> v], io)
               /\ ui' = Invoked(u)

SelectNext ==
    \/ UiMount
    \/ \E id \in StoredIds : UiSelect(id)
    \/ \E id \in StoredIds, confirmed \in BOOLEAN, io \in {"ok", "unlinkFails"} : UiDelete(id, confirmed, io)
    \/ \E id \in StoredIds : UiRemoveFromHistory(id)
    \/ \E id \in StoredIds, n \in RenameNames : UiRename(id, n, "ok")
    \/ UiDeliver

SelectSpec == SelectInit /\ [][SelectNext]_vars

\* C38: a refresh triggered by an artifact-changed notification leaves a non-empty selection
\* as it is
C38_NotificationKeepsSelection ==
    [][(Delivered("listing") /\ Head(ui.inbox).caller = "onGeneratedChanged" /\ ui.selectedId # NoId)
          => ui'.selectedId = ui.selectedId]_vars

(* ------------------------------ GET_FILE_URL --------------------------- *)

\* extension tokens in upper and mixed case, and one that is no audio extension
OtherExtToks == {".MP3", ".Wav", ".txt"}

\* String.prototype.toLowerCase on an extension token
toLowerCase(t) ==
    CASE t = ".MP3" -> ".mp3"
      [] t = ".Wav" -> ".wav"
      [] OTHER -> t

\* path.extname(p) for the audio paths: the extension token closing the base name, or ""
audioExtname(p) ==
    LET b == basename(p)
    IN IF Len(b) >= 2 /\ b[Len(b)] \in (ExtToks \cup AudioExtToks \cup OtherExtToks) THEN b[Len(b)] ELSE ""

\* Buffer.from(p, "utf8").toString("base64url")
base64url(p) == [encoding |-> "base64url", of |-> p]

\* the argument of the call: a string, or a value of another type
Text(p) == [typeof |-> "string", value |-> p]
NotText(t) == [typeof |-> t]

\* !absPath || typeof absPath !== "string": undefined is falsy, an object is truthy
InvalidPath(absPath) == absPath.typeof # "string" \/ absPath.value = EmptyPath

\* fs.existsSync(p)
existsSync(fs, p) == p \in fs \/ p \in ExistingDirs

\* fs.statSync(p): the kind of p, or the error the call raises
statSync(fs, p, io) ==
    IF io = "statFails" THEN [err |-> <<RawError("EACCES: permission denied")>>]
    ELSE IF io = "statFailsBare" THEN [err |-> <<RawError("")>>]
    ELSE [err |-> << >>, isFile |-> p \in fs]

Returned(value) == [status |-> "returned", value |-> value]

\* variant: the error of the fs call leaves the handler
UrlCatchRethrown(e) == [status |-> "threw", error |-> e]

\* lines 275-277: err?.message || "Falha ao gerar URL."
UrlCatch(e) ==
    Returned([ok |-> FALSE, message |-> IF e.message # "" THEN e.message ELSE "Falha ao gerar URL."])

\* lines 250-278
getFileUrl(fs, absPath, io) ==
    IF InvalidPath(absPath) THEN Returned([ok |-> FALSE, message |-> "Caminho inválido."])
    ELSE IF ~existsSync(fs, absPath.value) THEN Returned([ok |-> FALSE, message |-> "Arquivo não encontrado."])
    ELSE LET st == statSync(fs, absPath.value, io)
         IN IF st.err # << >> THEN UrlCatch(st.err[1])
            ELSE IF ~st.isFile THEN Returned([ok |-> FALSE, message |-> "O caminho não é um arquivo."])
            ELSE IF toLowerCase(audioExtname(absPath.value)) \notin AudioExtToks
                 THEN Returned([ok |-> FALSE, message |-> "Formato de áudio não suportado."])
            ELSE Returned([ok |-> TRUE,
                           url |-> [scheme |-> "appfile", host |-> "audio",
                                    path |-> base64url(absPath.value)]])

\* GET_FILE_URL
GetFileUrl(absPath, io) ==
    /\ opCount < MaxStoreOps
    /\ opCount' = opCount + 1
    /\ lastOp' = [op |-> "getFileUrl", req |-> [absPath |-> absPath], io |-> io] @@ getFileUrl(files, absPath, io)
    /\ UNCHANGED <<started, jobReq, pc, result, jobRunner, runners, runnerState, runCalls, cancelCalls,
                   cancelLog, lastCancelled, itemsCreated, catalog, files, events, trace, ui>>

\* the files the calls may name
UrlFiles ==
    { <<"/", "in", "/", "a", e>> : e \in {".mp3", ".flac", ".MP3", ".Wav", ".txt", ".srt"} }
       \cup { <<"/", "in", "/", "a">> }

\* the arguments of the calls: no value, an object, the empty string, files, a directory
UrlArguments ==
    {NotText("undefined"), NotText("object"), Text(EmptyPath), Text(<<"/", "in">>)}
       \cup {Text(p) : p \in UrlFiles}

\* the disk holds some of the files
UrlInit ==
    /\ started = 0
    /\ jobReq = [j \in JobIds |-> NoRequest]
    /\ pc = [j \in JobIds |-> "unused"]
    /\ result = [j \in JobIds |-> NoResult]
    /\ jobRunner = [j \in JobIds |-> 0]
    /\ runners = << >>
    /\ runnerState = [r \in RunnerIds |-> "new"]
    /\ runCalls = [r \in RunnerIds |-> 0]
    /\ cancelCalls = [r \in RunnerIds |-> 0]
    /\ cancelLog = << >>
    /\ lastCancelled = 0
    /\ itemsCreated = 0
    /\ catalog = << >>
    /\ \E present \in BOOLEAN : files = IF present THEN UrlFiles ELSE {AudioFile}
    /\ lastOp = NoOp
    /\ opCount = 0
    /\ events = [j \in JobIds |-> << >>]
    /\ trace = [j \in JobIds |-> << >>]
    /\ ui = NoUi

UrlNext == \E absPath \in UrlArguments, io \in {"ok", "statFails", "statFailsBare"} : GetFileUrl(absPath, io)

UrlSpec == UrlInit /\ [][UrlNext]_vars

\* the argument names an existing regular file with an audio extension, in any letter case
ServableAudio(fs, absPath) ==
    /\ absPath.typeof = "string"
    /\ absPath.value # EmptyPath
    /\ absPath.value \in fs
    /\ toLowerCase(audioExtname(absPath.value)) \in AudioExtToks

UrlAnswer ==
    Handled("getFileUrl") =>
        LET r == lastOp'
            servable == ServableAudio(files, r.req.absPath)
        IN /\ r.status = "returned"
           /\ r.value.ok => servable /\ r.io = "ok" /\ r.value.url.path = base64url(r.req.absPath.value)
           /\ (~servable \/ r.io # "ok") => ~r.value.ok /\ r.value.message # ""

\* C39: getFileUrl never raises; it answers ok with a URL only for a non-empty string naming
\* an existing regular file whose lower-cased extension is an audio extension, and ok = false
\* with a message in every other case, a filesystem call that throws included
C39_GetFileUrlNeverRaises == [][UrlAnswer]_vars

\* the stat of an existing audio file raised, and the call answered ok = false
C39_Witness ==
    /\ lastOp.op = "getFileUrl"
    /\ lastOp.io = "statFailsBare"
    /\ ServableAudio(files, lastOp.req.absPath)
    /\ lastOp.status = "returned"
    /\ ~lastOp.value.ok
    /\ lastOp.value.message = "Falha ao gerar URL."

====
